---- MODULE Spec2Model ----
(***************************************************************************)
(* A model of parts of Beast (madmongo1/beast):                            *)
(*   - socks5_op, the SOCKS5 client handshake composed operation           *)
(*     (example/contrib/socks-client/socks/impl/async_handshake_v5.hpp);   *)
(*   - flat_static_buffer_base, the flat buffer over caller storage        *)
(*     (the flat_static_buffer.ipp part of core/multi_buffer.hpp);         *)
(*   - storage_element and storage_element_container, the block list of    *)
(*     the multi-region buffer (core/multi_buffer.hpp);                    *)
(*   - storage_element_container::buffer_sequence, the view over the       *)
(*     blocks, with its iterator and discounts (core/multi_buffer.hpp);    *)
(*   - dynamic_buffer_v0_proxy, the DynamicBuffer_v2 face of a v0 buffer   *)
(*     (core/impl/dynamic_buffer.hpp), here over flat_static_buffer_base;  *)
(*   - dynamic_buffer_handle with asio v2 behaviour, over that proxy       *)
(*     (core/detail/dynamic_buffer_handle.hpp);                            *)
(*   - detail::buffers_pair and its (other, pos, n) sub-range constructor  *)
(*     (core/detail/impl/buffers_pair.ipp);                                *)
(*   - http::basic_parser as test/beast/http/parser.cpp drives it; the     *)
(*     parser itself is modelled from the behaviour those tests exercise;  *)
(*   - buffered_read_stream, a stream with a read buffer in front of the   *)
(*     next layer (core/impl/buffered_read_stream.hpp).                    *)
(* Each component has its own next-state relation and specification; the   *)
(* variables of the other components stay at their initial values.         *)
(***************************************************************************)
EXTENDS Integers, Sequences, FiniteSets, TLC

VARIABLES
    \* ---- socks5_op ----
    username_,      \* socks5_op::username_ (a sequence of bytes)
    password_,      \* socks5_op::password_
    moved_handler,  \* what invoking a moved-from Handler does in this build
    coro,           \* asio::coroutine value of the live operation object
    buffer_,        \* socks5_op::buffer_, the scratch string
    outstanding,    \* the asynchronous operation in flight on the stream
    pending_tx,     \* the bytes the in-flight write was given
    wire,           \* every byte the transport has written so far
    reply,          \* the method-selection reply the transport delivered
    io_log,         \* the asynchronous operations issued, in order
    handler_calls,  \* the error codes the caller's handler was invoked with
    escaped,        \* an exception left operator() (moved-from handler threw)
    io_error,       \* the first non-zero error code an I/O completion carried
    \* ---- flat_static_buffer_base ----
    begin_, in_, out_, last_, end_,   \* the five cursors (offsets into mem)
    mem,            \* the caller's storage, one byte per offset
    fb_call,        \* the last member function called, with its argument
    fb_threw,       \* whether that call threw std::length_error
    fb_ret,         \* what that call returned (prepare: <<data, size>>)
    fb_pre,         \* the buffer as it was when that call was made
    fb_prepared,    \* n of the latest successful prepare(n) since reset/clear
    \* ---- storage_element_container ----
    store_,         \* the vector of storage_element, front first
    limit_,         \* storage_element_container::limit_
    min_block_size_,\* storage_element_container::min_block_size_
    vec_capacity,   \* store_.capacity(), the elements the vector's array holds
    vec_data,       \* store_.data(), which array the vector currently owns
    allocated,      \* how many blocks have been allocated so far
    freed,          \* the blocks deallocated so far, in order
    sc_call,        \* the last member function called, with its argument
    sc_pre,         \* store_ as it was when that call was made
    sc_path,        \* the path that call took through add
    sc_assert,      \* that call evaluated a BOOST_ASSERT whose condition was false
    sc_calls,       \* how many member functions have been called
    \* ---- buffer_sequence ----
    seq_,           \* the view: its begin_ and end_ iterators
    seq_data,       \* the array the view's element pointers point into
    seq_bytes,      \* the regions the view denoted when it was obtained
    seq_call,       \* the last adjust(pos, limit), and the view before it
    it_,            \* an iterator of the view, held by the caller
    it_call,        \* the last iterator operation, with its argument
    it_ret,         \* the iterator that operation returned or dereferenced
    \* ---- dynamic_buffer_handle (asio v2 behaviour) ----
    prepared,       \* impl_class::prepared
    dh_pre,         \* impl_class::prepared as it was when the last call was made
    \* ---- buffers_pair ----
    b_,             \* buffers_pair::b_, two buffers <<data, size>>
    bp_call,        \* the arguments of the (other, pos, n) constructor
    \* ---- http::basic_parser under parser_test ----
    parser_,        \* the parser p of the running test
    test_,          \* the running test: its message, split point and position
    \* ---- buffered_read_stream ----
    s_buffer_,      \* buffered_read_stream::buffer_, the internal DynamicBuffer
    s_capacity_,    \* buffered_read_stream::capacity_
    next_layer_,    \* how many bytes the next layer's stream has produced
    op_,            \* the asynchronous read in flight: what it waits for, step_, b_
    delivered,      \* every byte handed to a caller so far, in order
    rs_call,        \* the latest read call: its kind, the stream before it, outcome
    rs_ret,         \* what the latest completed read reported, and from where
    rs_invoked      \* how often the latest async_read_some's handler was invoked

socksVars == <<username_, password_, moved_handler, coro, buffer_, outstanding,
               pending_tx, wire, reply, io_log, handler_calls, escaped, io_error>>
flatVars == <<begin_, in_, out_, last_, end_, mem, fb_call, fb_threw, fb_ret, fb_pre,
              fb_prepared>>
storeVars == <<store_, limit_, min_block_size_, vec_capacity, vec_data,
               allocated, freed, sc_call, sc_pre, sc_path, sc_assert, sc_calls>>
seqVars == <<seq_, seq_data, seq_bytes, seq_call, it_, it_call, it_ret>>
handleVars == <<prepared, dh_pre>>
pairVars == <<b_, bp_call>>
parserVars == <<parser_, test_>>
streamVars == <<s_buffer_, s_capacity_, next_layer_, op_, delivered, rs_call,
                rs_ret, rs_invoked>>
vars == <<socksVars, flatVars, storeVars, seqVars, handleVars, pairVars,
          parserVars, streamVars>>

(***************************************************************************)
(*                              socks5_op                                  *)
(***************************************************************************)

\* Protocol constants (socks/detail/protocol.hpp), with the values the
\* greeting's bytes show.
SOCKS_VERSION_5 == 5
SOCKS5_AUTH_NONE == 0
SOCKS5_AUTH == 2
SOCKS5_AUTH_UNACCEPTABLE == 255
\* RFC 1929 sub-negotiation version.
AUTH_VERSION_1 == 1

\* Error codes.  Success is the default-constructed error_code.
Success == "success"
TransportErrors == {"eof", "operation_aborted"}
protocol_error == "protocol_error"
socks_unsupported_authentication_version == "socks_unsupported_authentication_version"
socks_not_implemented == "socks_not_implemented"
socks_username_required == "socks_username_required"
socks_authentication_error == "socks_authentication_error"

\* The byte values the server may send, and the credentials a caller may give.
ServerBytes == {0, 1, 2, 5, 255}
Usernames == {<<>>, <<117>>}
Passwords == {<<>>, <<112>>}

\* A Handler is moved into each asynchronous operation it is handed to; what
\* calling the moved-from object does depends on the Handler type: it may
\* still reach the caller's callback (a lambda with reference or trivially
\* copyable captures), do nothing, or throw.
MovedFromOutcomes == {"invokes", "noop", "throws"}

Terminated == -1

\* build_method_selection_message(): the greeting left in buffer_.
build_method_selection_message ==
    <<5, 2, 0, 2>>

\* prepare_rx_method_selection(): buffer_.resize(2).
prepare_rx_method_selection(buf) ==
    [i \in 1..2 |-> IF i <= Len(buf) THEN buf[i] ELSE 0]

\* A variant of validate_authentication_method that reports an unknown method
\* as a protocol error.
validate_authentication_method_wrong_code(buf) ==
    IF buf[1] # SOCKS_VERSION_5
    THEN [result |-> SOCKS5_AUTH_UNACCEPTABLE, ec |-> protocol_error]
    ELSE IF buf[2] \in {SOCKS5_AUTH_NONE, SOCKS5_AUTH}
         THEN [result |-> buf[2], ec |-> Success]
         ELSE [result |-> buf[2], ec |-> protocol_error]

\* A variant of validate_authentication_method that looks at the method byte
\* before the version byte.
validate_authentication_method_method_first(buf) ==
    IF buf[2] \in {SOCKS5_AUTH_NONE, SOCKS5_AUTH}
    THEN [result |-> buf[2], ec |-> Success]
    ELSE IF buf[1] # SOCKS_VERSION_5
         THEN [result |-> SOCKS5_AUTH_UNACCEPTABLE, ec |-> protocol_error]
         ELSE [result |-> buf[2],
               ec |-> socks_unsupported_authentication_version]

\* validate_authentication_method(ec): the pair (result, ec).
validate_authentication_method(buf) ==
    IF buf[1] # SOCKS_VERSION_5
    THEN [result |-> SOCKS5_AUTH_UNACCEPTABLE, ec |-> protocol_error]
    ELSE IF buf[2] \in {SOCKS5_AUTH_NONE, SOCKS5_AUTH}
         THEN [result |-> buf[2], ec |-> Success]
         ELSE [result |-> buf[2],
               ec |-> socks_unsupported_authentication_version]

\* What one entry of the reenter block leaves behind: the coroutine value,
\* buffer_, the asynchronous operation issued by a yield ("none" when the block
\* was left by break or through its end) and the local ec.
Left(c, buf, op, ec) == [coro |-> c, buffer |-> buf, issue |-> op, ec |-> ec]

\* Entry at the start of the block (coroutine value 0).
enter_0(ec, buf) ==
    Left(1, build_method_selection_message, "write", ec)

\* A variant of enter_1 without "if(ec) break".
enter_1_no_break(ec, buf) ==
    Left(2, prepare_rx_method_selection(buf), "read", ec)

\* Re-entry after the greeting write (coroutine value 1).
enter_1(ec, buf) ==
    IF ec # Success
    THEN Left(Terminated, buf, "none", ec)
    ELSE Left(2, prepare_rx_method_selection(buf), "read", ec)

\* A variant of enter_2 that starts the sub-negotiation without looking at the
\* error code or the reply.
enter_2_always_auth(ec, buf) ==
    Left(3, buf, "auth", ec)

\* Re-entry after the method-selection read (coroutine value 2).
enter_2(ec, buf) ==
    IF ec # Success
    THEN Left(Terminated, buf, "none", ec)
    ELSE LET v == validate_authentication_method(buf) IN
         IF v.ec # Success
         THEN Left(Terminated, buf, "none", v.ec)
         ELSE IF v.result = SOCKS5_AUTH_NONE
         THEN Left(Terminated, buf, "none", socks_not_implemented)
         ELSE IF v.result = SOCKS5_AUTH
         THEN Left(3, buf, "auth", v.ec)
         ELSE Left(Terminated, buf, "none",
                   socks_unsupported_authentication_version)

\* Re-entry after the username/password sub-negotiation (coroutine value 3).
enter_3(ec, buf) ==
    IF ec # Success
    THEN Left(Terminated, buf, "none", ec)
    ELSE Left(Terminated, buf, "none", socks_not_implemented)

\* reenter(this) { ... }: dispatch on the coroutine value.
reenter(c, ec, buf) ==
    CASE c = 0 -> enter_0(ec, buf)
      [] c = 1 -> enter_1(ec, buf)
      [] c = 2 -> enter_2(ec, buf)
      [] c = 3 -> enter_3(ec, buf)
      [] OTHER -> Left(Terminated, buf, "none", ec)

\* The request of the username/password sub-negotiation (RFC 1929).
auth_request(u, p) ==
    <<AUTH_VERSION_1, Len(u)>> \o u \o <<Len(p)>> \o p

\* The sub-negotiation's check of the server's two-byte answer.
auth_validate(buf) ==
    IF buf[1] # AUTH_VERSION_1 THEN socks_unsupported_authentication_version
    ELSE IF buf[2] # 0 THEN socks_authentication_error
    ELSE Success

\* this->complete_now(ec), the statement after the reenter block.  It runs on
\* every entry: after a yield, control leaves the block with *this moved into
\* the asynchronous operation just issued, so h_ is a moved-from Handler.
complete_now(ec, moved_from) ==
    IF ~moved_from
    THEN /\ handler_calls' = Append(handler_calls, ec)
         /\ escaped' = escaped
    ELSE /\ handler_calls' = IF moved_handler = "invokes"
                             THEN Append(handler_calls, ec)
                             ELSE handler_calls
         /\ escaped' = (escaped \/ moved_handler = "throws")

\* socks5_op::operator()(ec, bytes_transferred) on the live operation object;
\* buf is buffer_ as the completed asynchronous operation left it.
socks5_op_call(ec, buf) ==
    LET r == reenter(coro, ec, buf) IN
    /\ coro' = r.coro
    /\ buffer_' = r.buffer
    /\ outstanding' = IF r.issue = "auth" THEN "auth_write" ELSE r.issue
    /\ pending_tx' = CASE r.issue = "write" -> r.buffer
                       [] r.issue = "auth" -> auth_request(username_, password_)
                       [] OTHER -> <<>>
    /\ io_log' = IF r.issue = "none" THEN io_log ELSE Append(io_log, r.issue)
    /\ io_error' = IF io_error = Success THEN ec ELSE io_error
    /\ complete_now(r.ec, r.issue # "none")

\* async_handshake_v5(): the initiation constructs socks5_op, whose constructor
\* calls (*this)({}, 0).
async_handshake_v5 ==
    /\ coro = 0
    /\ outstanding = "none"
    /\ socks5_op_call(Success, buffer_)
    /\ UNCHANGED <<username_, password_, moved_handler, wire, reply>>

\* The transport completes the greeting write: all bytes on success, a proper
\* prefix on error.
WriteCompletes ==
    /\ outstanding = "write"
    /\ \E ec \in {Success} \cup TransportErrors :
       \E k \in 0..Len(pending_tx) :
          /\ (ec = Success) <=> (k = Len(pending_tx))
          /\ wire' = wire \o SubSeq(pending_tx, 1, k)
          /\ socks5_op_call(ec, buffer_)
    /\ UNCHANGED <<username_, password_, moved_handler, reply>>

\* The transport completes the two-byte read: on success buffer_ holds the
\* server's two bytes, on error it holds what was there.
ReadCompletes ==
    /\ outstanding = "read"
    /\ \/ \E b1, b2 \in ServerBytes :
             /\ reply' = <<b1, b2>>
             /\ socks5_op_call(Success, <<b1, b2>>)
       \/ \E ec \in TransportErrors :
             /\ reply' = reply
             /\ socks5_op_call(ec, buffer_)
    /\ UNCHANGED <<username_, password_, moved_handler, wire>>

\* The sub-negotiation's write completes: on error the sub-negotiation completes
\* to socks5_op with that error, otherwise it reads the two-byte answer.
AuthWriteCompletes ==
    /\ outstanding = "auth_write"
    /\ \E ec \in {Success} \cup TransportErrors :
       \E k \in 0..Len(pending_tx) :
          /\ (ec = Success) <=> (k = Len(pending_tx))
          /\ wire' = wire \o SubSeq(pending_tx, 1, k)
          /\ IF ec = Success
             THEN /\ outstanding' = "auth_read"
                  /\ pending_tx' = <<>>
                  /\ UNCHANGED <<coro, buffer_, io_log, handler_calls,
                                 escaped, io_error>>
             ELSE socks5_op_call(ec, buffer_)
    /\ UNCHANGED <<username_, password_, moved_handler, reply>>

\* The sub-negotiation's read completes and the sub-negotiation completes to
\* socks5_op with the transport's error or the result of its validation.
AuthReadCompletes ==
    /\ outstanding = "auth_read"
    /\ \/ \E b1 \in {0, 1}, b2 \in {0, 1} :
             socks5_op_call(auth_validate(<<b1, b2>>), buffer_)
       \/ \E ec \in TransportErrors :
             socks5_op_call(ec, buffer_)
    /\ UNCHANGED <<username_, password_, moved_handler, wire, reply>>

InitSocks ==
    /\ username_ \in Usernames
    /\ password_ \in Passwords
    /\ moved_handler \in MovedFromOutcomes
    /\ coro = 0
    /\ buffer_ = <<>>
    /\ outstanding = "none"
    /\ pending_tx = <<>>
    /\ wire = <<>>
    /\ reply = <<>>
    /\ io_log = <<>>
    /\ handler_calls = <<>>
    /\ escaped = FALSE
    /\ io_error = Success

(***************************************************************************)
(*                        flat_static_buffer_base                          *)
(*   begin_     in_          out_        last_      end_                   *)
(*     |<------->|<---------->|<---------->|<------->|                     *)
(*               |  readable  |  writable  |                               *)
(***************************************************************************)

\* The size of the caller's storage and the byte values written to it.
MemSize == 3
FlatBytes == {0, 1}
Offsets == 0..(MemSize - 1)

\* dist(first, last), size(), capacity(), max_size() of a cursor record.
dist(first, last) == last - first
size(b) == dist(b.in, b.out)
capacity(b) == dist(b.begin, b.end)
max_size(b) == dist(b.begin, b.end)

\* The buffer as one value.
Buf == [begin |-> begin_, in |-> in_, out |-> out_, last |-> last_,
        end |-> end_, mem |-> mem]

\* The readable bytes [in_, out_) of a buffer value, in order.
readable(b) == [i \in 1..(b.out - b.in) |-> b.mem[b.in + i - 1]]

\* std::memmove(dst, src, len) on the storage.
memmove(m, dst, src, len) ==
    [i \in DOMAIN m |-> IF dst <= i /\ i < dst + len
                        THEN m[src + (i - dst)] ELSE m[i]]

\* What a member function leaves: the buffer, whether it threw, its result.
Done(b, threw, ret) == [buf |-> b, threw |-> threw, ret |-> ret]

\* clear()
clear(b) ==
    Done([b EXCEPT !.in = b.begin, !.out = b.begin, !.last = b.begin],
         FALSE, <<>>)

\* A variant of prepare without the capacity check.
prepare_no_check(b, n) ==
    IF n <= dist(b.out, b.end)
    THEN Done([b EXCEPT !.last = b.out + n], FALSE, <<b.out, n>>)
    ELSE LET len == size(b) IN
         Done([b EXCEPT !.mem = IF len > 0
                                 THEN memmove(b.mem, b.begin, b.in, len)
                                 ELSE b.mem,
                         !.in = b.begin,
                         !.out = b.begin + len,
                         !.last = b.begin + len + n],
               FALSE, <<b.begin + len, n>>)

\* A variant of prepare that compacts before the capacity check.
prepare_compact_first(b, n) ==
    IF n <= dist(b.out, b.end)
    THEN Done([b EXCEPT !.last = b.out + n], FALSE, <<b.out, n>>)
    ELSE LET len == size(b) IN
         LET c == [b EXCEPT !.mem = IF len > 0
                                    THEN memmove(b.mem, b.begin, b.in, len)
                                    ELSE b.mem,
                            !.in = b.begin,
                            !.out = b.begin + len] IN
         IF n > capacity(b) - len
         THEN Done(c, TRUE, <<>>)
         ELSE Done([c EXCEPT !.last = b.begin + len + n],
                   FALSE, <<b.begin + len, n>>)

\* A variant of prepare that resets the cursors without moving the bytes.
prepare_no_memmove(b, n) ==
    IF n <= dist(b.out, b.end)
    THEN Done([b EXCEPT !.last = b.out + n], FALSE, <<b.out, n>>)
    ELSE LET len == size(b) IN
         IF n > capacity(b) - len
         THEN Done(b, TRUE, <<>>)
         ELSE Done([b EXCEPT !.in = b.begin,
                             !.out = b.begin + len,
                             !.last = b.begin + len + n],
                   FALSE, <<b.begin + len, n>>)

\* prepare(n)
prepare(b, n) ==
    IF n <= dist(b.out, b.end)
    THEN Done([b EXCEPT !.last = b.out + n], FALSE, <<b.out, n>>)
    ELSE LET len == size(b) IN
         IF n > capacity(b) - len
         THEN Done(b, TRUE, <<>>)
         ELSE Done([b EXCEPT !.mem = IF len > 0
                                     THEN memmove(b.mem, b.begin, b.in, len)
                                     ELSE b.mem,
                             !.in = b.begin,
                             !.out = b.begin + len,
                             !.last = b.begin + len + n],
                   FALSE, <<b.begin + len, n>>)

\* commit(n)
commit(b, n) ==
    LET m == IF n < dist(b.out, b.last) THEN n ELSE dist(b.out, b.last) IN
    Done([b EXCEPT !.out = b.out + m], FALSE, <<>>)

\* A variant of consume that advances in_ by n without clamping.
consume_unclamped(b, n) ==
    Done([b EXCEPT !.in = b.in + n], FALSE, <<>>)

\* consume(n)
consume(b, n) ==
    IF n >= size(b)
    THEN Done([b EXCEPT !.in = b.begin, !.out = b.begin], FALSE, <<>>)
    ELSE Done([b EXCEPT !.in = b.in + n], FALSE, <<>>)

\* reset(p, n)
reset(b, p, n) ==
    Done([b EXCEPT !.begin = p, !.in = p, !.out = p, !.last = p, !.end = p + n],
         FALSE, <<>>)

\* shrink_impl(n)
shrink_impl(b, n) ==
    LET b0 == prepare(b, 0).buf IN
    LET m == IF size(b0) < n THEN size(b0) ELSE n IN
    Done([b0 EXCEPT !.out = b0.out - m], FALSE, <<>>)

\* A call of a member function: the buffer becomes what the function leaves,
\* and the call, its outcome and the buffer before it are recorded.
Call(name, arg, d) ==
    /\ begin_' = d.buf.begin
    /\ in_' = d.buf.in
    /\ out_' = d.buf.out
    /\ last_' = d.buf.last
    /\ end_' = d.buf.end
    /\ mem' = d.buf.mem
    /\ fb_call' = <<name, arg>>
    /\ fb_threw' = d.threw
    /\ fb_ret' = d.ret
    /\ fb_pre' = [in |-> in_, out |-> out_, last |-> last_,
                  readable |-> readable(Buf)]
    /\ fb_prepared' = CASE name \in {"prepare", "grow"} /\ ~d.threw -> arg
                         [] name \in {"reset", "clear"} -> 0
                         [] OTHER -> fb_prepared

\* Argument values: every size up to one more than the storage.
Sizes == 0..(MemSize + 1)

Reset == \E p \in 0..MemSize : \E n \in 0..(MemSize - p) :
             Call("reset", n, reset(Buf, p, n))
Clear == Call("clear", 0, clear(Buf))
Prepare == \E n \in Sizes : Call("prepare", n, prepare(Buf, n))
Commit == \E n \in Sizes : Call("commit", n, commit(Buf, n))
Consume == \E n \in Sizes : Call("consume", n, consume(Buf, n))
Shrink == \E n \in Sizes : Call("shrink", n, shrink_impl(Buf, n))

\* The caller stores a byte through the region the last prepare returned.
Store ==
    /\ \E i \in 0..(last_ - out_ - 1) : \E v \in FlatBytes :
          mem' = [mem EXCEPT ![out_ + i] = v]
    /\ UNCHANGED <<begin_, in_, out_, last_, end_, fb_call, fb_threw, fb_ret, fb_pre,
                   fb_prepared>>

\* The buffer after reset(p, n) over storage of unknown content.
InitFlat ==
    /\ mem \in [Offsets -> FlatBytes]
    /\ \E p \in 0..MemSize : \E n \in 0..(MemSize - p) :
          /\ begin_ = p /\ in_ = p /\ out_ = p /\ last_ = p /\ end_ = p + n
          /\ fb_call = <<"reset", n>>
    /\ fb_threw = FALSE
    /\ fb_ret = <<>>
    /\ fb_pre = [in |-> begin_, out |-> begin_, last |-> begin_, readable |-> <<>>]
    /\ fb_prepared = 0

(***************************************************************************)
(*               storage_element, storage_element_container                *)
(*   begin_data_    begin_used_     end_used_      end_data_               *)
(*       |<------------>|<------------->|<------------->|                  *)
(*                      |    size()     |  available()  |                  *)
(***************************************************************************)

\* The initial value of min_block_size_.
default_min_block_size == 4096

\* The most blocks one run allocates, and the most calls it makes.
MaxAllocated == 3
MaxCalls == 4

\* std::size_t arithmetic wraps; the word is narrowed to 30 bits.
SizeMod == 1073741824

\* storage_element(required_capacity): a fresh allocation, number id, with
\* the cursors as offsets from its first byte.
storage_element(id, required_capacity) ==
    [id |-> id, begin_data |-> 0, end_data |-> required_capacity,
     begin_used |-> 0, end_used |-> 0]

\* storage_element::data(), size(), available(), capacity()
element_data(e) == e.begin_used
element_size(e) == (e.end_used - e.begin_used) % SizeMod
available(e) == (e.end_data - e.end_used) % SizeMod
element_capacity(e) == (e.end_data - e.begin_data) % SizeMod

\* storage_element::acquire(n), storage_element::consume(n)
acquire(e, n) == [e EXCEPT !.end_used = e.end_used + n]
element_consume(e, n) == [e EXCEPT !.begin_used = e.begin_used + n]

\* storage_element::clear(): begin_used_ = end_used_ = data()
element_clear(e) ==
    [e EXCEPT !.begin_used = element_data(e), !.end_used = element_data(e)]

\* The container as one value, at the start of a call.
Container ==
    [store |-> store_, limit |-> limit_, min_block_size |-> min_block_size_,
     vec_capacity |-> vec_capacity, vec_data |-> vec_data,
     allocated |-> allocated, freed |-> freed, assert_failed |-> FALSE]

\* storage_element_container::round_up(required)
round_up(required) == required

\* What *store_.end() can read: storage past the last element, which holds
\* no storage_element. Only its available() is looked at.
PastEnd ==
    {[id |-> 0, begin_data |-> 0, end_data |-> a, begin_used |-> 0, end_used |-> 0] :
        a \in {0, 2, default_min_block_size + 2}}

\* The capacities std::vector may grow to when it holds n elements and
\* needs room for one more.
Grown(n) == {k \in {n + 1, 2 * n} : k > n}

\* store_.push_back(element): when the array is full the vector moves its
\* elements to a new array of capacity grown.
push_back(c, element, grown) ==
    IF Len(c.store) < c.vec_capacity
    THEN [c EXCEPT !.store = Append(@, element)]
    ELSE [c EXCEPT !.store = Append(@, element),
                   !.vec_capacity = grown,
                   !.vec_data = @ + 1]

\* What add leaves: the container and the path taken.
Added(c, path) == [c |-> c, path |-> path]

\* storage_element_container::add(required_space). past_end is what
\* *store_.end() reads.
add(c, required_space, past_end, grown) ==
    IF Len(c.store) # 0 /\ available(past_end) <= required_space
    THEN Added([c EXCEPT !.assert_failed =
                    @ \/ ~(available(past_end) >= required_space)],
               "past_end")
    ELSE LET m == IF required_space > c.min_block_size
                  THEN round_up(required_space) ELSE c.min_block_size IN
         LET element == storage_element(c.allocated + 1, m) IN
         Added(push_back([c EXCEPT !.min_block_size = m,
                                   !.allocated = @ + 1,
                                   !.assert_failed =
                                       @ \/ ~(available(element) >= required_space)],
                         acquire(element, required_space), grown),
               "push_back")

\* A variant of erase_element that does not deallocate the block.
erase_element_no_destroy(c) ==
    [c EXCEPT !.store = Tail(@)]

\* erase_element(where) for where == store_.begin(): destroy, then erase.
erase_element(c) ==
    [c EXCEPT !.freed = Append(@, Head(c.store).id), !.store = Tail(@)]

\* storage_element_container::consume(n); iter stays at store_.begin().
RECURSIVE container_consume(_, _)
container_consume(c, n) ==
    IF n # 0 /\ c.store # <<>>
    THEN IF n >= element_size(Head(c.store))
         THEN container_consume(erase_element(c), n - element_size(Head(c.store)))
         ELSE [c EXCEPT !.store = <<element_consume(Head(@), n)>> \o Tail(@),
                        !.assert_failed = @ \/ ~(element_size(Head(c.store)) >= n)]
    ELSE c

(***************************************************************************)
(*        discount, buffer_sequence_iterator, buffer_sequence              *)
(***************************************************************************)

\* The null element pointer; element pointers are indices into the array.
nullptr == -1

\* discount{amount, where}, discount::applies(), discount::operator+=(n)
discount(amount, where) == [amount |-> amount, where |-> where]
applies(d) == d.where = 0 /\ d.amount # 0
discount_advance(d, n) == [d EXCEPT !.where = d.where - n]

\* buffer_sequence_iterator(f, initial_discount, final_discount)
iterator(f, initial_discount, final_discount) ==
    [f |-> f, initial_discount |-> initial_discount,
     final_discount |-> final_discount]

\* buffer_sequence_iterator::operator+=(n)
iterator_advance(it, n) ==
    iterator(it.f + n, discount_advance(it.initial_discount, n),
             discount_advance(it.final_discount, n))

\* operator==, operator!=: the block pointers are compared.
operator_eq(lhs, rhs) == lhs.f = rhs.f
operator_ne(lhs, rhs) == lhs.f # rhs.f

\* operator-(a, b): the distance a - b, in blocks.
operator_minus(a, b) == a.f - b.f

\* operator<, operator>: "note: reversed polarity" in the source.
operator_lt(lhs, rhs) == lhs.f > rhs.f
operator_gt(lhs, rhs) == lhs.f < rhs.f

\* operator>=, operator<=: the negations of < and >.
operator_ge(lhs, rhs) == ~operator_lt(lhs, rhs)
operator_le(lhs, rhs) == ~operator_gt(lhs, rhs)

\* A net buffer: size bytes starting at offset data of allocation id.
value_type(e) == [id |-> e.id, data |-> element_data(e), size |-> element_size(e)]

\* net::mutable_buffer::operator+=(n): skip at most size() bytes.
buffer_advance(b, n) ==
    LET k == IF n < b.size THEN n ELSE b.size IN
    [b EXCEPT !.data = (b.data + k) % SizeMod, !.size = b.size - k]

\* buffer_sequence_iterator::trim(result)
trim(it, result) ==
    LET r == IF applies(it.initial_discount)
             THEN buffer_advance(result, it.initial_discount.amount)
             ELSE result IN
    IF applies(it.final_discount)
    THEN [r EXCEPT !.data = (r.data + it.final_discount.amount) % SizeMod,
                   !.size = (r.size - it.final_discount.amount) % SizeMod]
    ELSE r

\* *p for an element pointer p into the array elems; past the last element
\* the read finds past_end.
element_at(elems, p, past_end) ==
    IF 0 <= p /\ p < Len(elems) THEN elems[p + 1] ELSE past_end

\* buffer_sequence_iterator::operator*()
deref(it, elems, past_end) == trim(it, value_type(element_at(elems, it.f, past_end)))

\* buffer_sequence(first, last)
buffer_sequence(first, last) ==
    LET b == iterator(first, discount(0, 0), discount(0, (last - first) - 1)) IN
    [begin |-> b, end |-> iterator_advance(b, last - first)]

\* storage_element_container::make_sequence()
make_sequence(c) == buffer_sequence(0, Len(c.store))

\* The buffers of a view, in order: *it for it from begin() up to end().
Buffers(s, elems, past_end) ==
    [k \in 1..(s.end.f - s.begin.f) |->
        deref(iterator_advance(s.begin, k - 1), elems, past_end)]

\* net::buffer_size(sequence): the sum of the sizes of its buffers.
RECURSIVE sum_sizes(_)
sum_sizes(bs) ==
    IF bs = <<>> THEN 0 ELSE (Head(bs).size + sum_sizes(Tail(bs))) % SizeMod
buffer_size(s, elems, past_end) == sum_sizes(Buffers(s, elems, past_end))

\* The first loop of adjust: skip the elements that lie before pos.
RECURSIVE skip_to(_, _, _, _, _, _)
skip_to(first, last, pos, initial_discount, elems, past_end) ==
    IF first # last /\ pos # 0
    THEN LET sz == element_size(element_at(elems, first, past_end)) IN
         IF sz < pos
         THEN skip_to(first + 1, last, pos - sz, discount(pos - sz, 0),
                      elems, past_end)
         ELSE skip_to(first, last, 0, discount(pos, 0), elems, past_end)
    ELSE [first |-> first, initial_discount |-> initial_discount]

\* The lambda current_size of adjust, for the element current points at.
current_size(current, current_discount, elems, past_end) ==
    LET sz == element_size(element_at(elems, current, past_end)) IN
    IF applies(current_discount)
    THEN (sz - current_discount.amount) % SizeMod ELSE sz

\* The second loop of adjust: find the element the limit falls in.
RECURSIVE find_final(_, _, _, _, _, _, _, _)
find_final(current, first, last, limit, final_d, current_d, elems, past_end) ==
    IF current # last
    THEN LET sz == current_size(current, current_d, elems, past_end) IN
         IF limit <= sz
         THEN discount(sz - limit, current - first)
         ELSE find_final(current + 1, first, last, limit - sz, final_d,
                         current_d, elems, past_end)
    ELSE final_d

\* buffer_sequence::adjust(pos, limit) on the view s over the array elems.
adjust(s, pos, limit, elems, past_end) ==
    IF s.begin.f = s.end.f
    THEN s
    ELSE LET total == buffer_size(s, elems, past_end) IN
         LET size0 == IF total > pos THEN total - pos ELSE 0 IN
         LET lim == IF limit < size0 THEN limit ELSE size0 IN
         IF lim = 0
         THEN [begin |-> iterator(nullptr, discount(0, 0), discount(0, 0)),
               end |-> iterator(nullptr, discount(0, 0), discount(0, 0))]
         ELSE LET d0 == s.begin.initial_discount IN
              LET pos1 == IF applies(d0) THEN (pos + d0.amount) % SizeMod
                          ELSE pos IN
              LET last == s.end.f IN
              LET w == skip_to(s.begin.f, last, pos1, d0, elems, past_end) IN
              LET f0 == discount((lim - current_size(w.first, w.initial_discount,
                                                     elems, past_end)) % SizeMod,
                                 0) IN
              LET final_discount ==
                      find_final(w.first, w.first, last, lim, f0,
                                 w.initial_discount, elems, past_end) IN
              LET b == iterator(w.first, w.initial_discount, final_discount) IN
              [begin |-> b, end |-> iterator_advance(b, last - w.first)]

(***************************************************************************)
(*            Operations on the container and on the view                  *)
(***************************************************************************)

\* A call of a member function of the container: the container becomes what
\* the function leaves; the call, its path and store_ before it are recorded.
StoreCall(name, arg, c, path) ==
    /\ store_' = c.store
    /\ limit_' = c.limit
    /\ min_block_size_' = c.min_block_size
    /\ vec_capacity' = c.vec_capacity
    /\ vec_data' = c.vec_data
    /\ allocated' = c.allocated
    /\ freed' = c.freed
    /\ sc_assert' = c.assert_failed
    /\ sc_call' = <<name, arg>>
    /\ sc_pre' = store_
    /\ sc_path' = path
    /\ sc_calls < MaxCalls
    /\ sc_calls' = sc_calls + 1

\* Argument values: small requests and one larger than min_block_size_.
AddSizes == {0, 1, 2, default_min_block_size + 1}
ConsumeSizes == {0, 1, 2, 3, default_min_block_size + 1}
Limits == {default_min_block_size, 2 * default_min_block_size}

\* No iterator obtained yet.
NoIterator ==
    /\ it_ = iterator(0, discount(0, 0), discount(0, -1))
    /\ it_call = <<"none", 0>>
    /\ it_ret = iterator(0, discount(0, 0), discount(0, -1))

\* An element that is no block, for reads the view never makes.
NoElement == storage_element(0, 0)

\* The view of an empty container, and no adjust made yet.
NoSequence == buffer_sequence(0, 0)
NoAdjust == [pos |-> 0, limit |-> 0, pre |-> NoSequence, count |-> 0]

Add ==
    /\ allocated < MaxAllocated
    /\ \E n \in AddSizes : \E past_end \in PastEnd : \E grown \in Grown(Len(store_)) :
          LET r == add(Container, n, past_end, grown) IN
          StoreCall("add", n, r.c, r.path)
    /\ UNCHANGED seqVars

\* consume(n); the caller drops the view it held.
ContainerConsume ==
    /\ \E n \in ConsumeSizes :
          StoreCall("consume", n, container_consume(Container, n), "none")
    /\ seq_' = NoSequence
    /\ seq_data' = vec_data'
    /\ seq_bytes' = <<>>
    /\ UNCHANGED <<seq_call, it_, it_call, it_ret>>

\* The caller obtains the view of the container.
MakeSequence ==
    /\ seq_' = make_sequence(Container)
    /\ seq_data' = vec_data
    /\ seq_bytes' = Buffers(make_sequence(Container), store_, NoElement)
    /\ UNCHANGED <<seq_call, it_, it_call, it_ret, storeVars>>

\* The blocks a view is taken over: at most MaxElements blocks of capacity
\* MaxElementSize, each after an acquire; and the most calls of adjust made
\* on one view.
MaxElements == 2
MaxElementSize == 2
MaxAdjusts == 2
\* A call of a member function of the block store_[1].
ElementCall(name, arg, e) ==
    StoreCall(name, arg, [Container EXCEPT !.store = <<e>>], "none")

\* acquire(n), consume(n) and clear() on one block, by a caller that meets
\* the asserted preconditions.
ElementAcquire ==
    /\ \E n \in 0..MaxElementSize :
          /\ available(store_[1]) >= n
          /\ ElementCall("acquire", n, acquire(store_[1], n))
    /\ UNCHANGED seqVars
ElementConsume ==
    /\ \E n \in 0..MaxElementSize :
          /\ element_size(store_[1]) >= n
          /\ ElementCall("consume", n, element_consume(store_[1], n))
    /\ UNCHANGED seqVars
ElementClear ==
    /\ ElementCall("clear", 0, element_clear(store_[1]))
    /\ UNCHANGED seqVars

\* One block just constructed.
InitElement ==
    /\ \E required_capacity \in 1..(MaxElementSize + 1) :
          store_ = <<storage_element(1, required_capacity)>>
    /\ limit_ = default_min_block_size
    /\ min_block_size_ = default_min_block_size
    /\ vec_capacity = 1
    /\ vec_data = 0
    /\ allocated = 1
    /\ freed = <<>>
    /\ sc_call = <<"construct", store_[1].end_data>>
    /\ sc_pre = <<>>
    /\ sc_path = "none"
    /\ sc_assert = FALSE
    /\ sc_calls = 0
    /\ seq_ = NoSequence
    /\ seq_data = 0
    /\ seq_bytes = <<>>
    /\ seq_call = NoAdjust
    /\ NoIterator

\* An empty container with limit L.
InitStore ==
    /\ store_ = <<>>
    /\ limit_ \in Limits
    /\ min_block_size_ = default_min_block_size
    /\ vec_capacity = 0
    /\ vec_data = 0
    /\ allocated = 0
    /\ freed = <<>>
    /\ sc_call = <<"construct", limit_>>
    /\ sc_pre = <<>>
    /\ sc_path = "none"
    /\ sc_assert = FALSE
    /\ sc_calls = 0
    /\ seq_ = NoSequence
    /\ seq_data = 0
    /\ seq_bytes = <<>>
    /\ seq_call = NoAdjust
    /\ NoIterator

ViewElements ==
    {acquire(storage_element(1, MaxElementSize), n) : n \in 0..MaxElementSize}
ViewArrays == UNION {[1..k -> ViewElements] : k \in 0..MaxElements}
AdjustArgs == 0..(MaxElementSize + 2)

\* adjust(pos, limit) on the view.
Adjust ==
    /\ seq_call.count < MaxAdjusts
    /\ \E pos \in AdjustArgs : \E limit \in AdjustArgs : \E past_end \in PastEnd :
          /\ seq_' = adjust(seq_, pos, limit, store_, past_end)
          /\ seq_call' = [pos |-> pos, limit |-> limit, pre |-> seq_,
                          count |-> seq_call.count + 1]
    /\ UNCHANGED <<seq_data, seq_bytes, it_, it_call, it_ret, storeVars>>

\* A view freshly made over some blocks.
InitSeq ==
    /\ \E a \in ViewArrays :
          store_ = [i \in DOMAIN a |-> [a[i] EXCEPT !.id = i]]
    /\ limit_ = default_min_block_size
    /\ min_block_size_ = MaxElementSize
    /\ vec_capacity = Len(store_)
    /\ vec_data = 0
    /\ allocated = Len(store_)
    /\ freed = <<>>
    /\ sc_call = <<"construct", limit_>>
    /\ sc_pre = <<>>
    /\ sc_path = "none"
    /\ sc_assert = FALSE
    /\ sc_calls = 0
    /\ seq_ = buffer_sequence(0, Len(store_))
    /\ seq_data = 0
    /\ seq_bytes = Buffers(seq_, store_, NoElement)
    /\ seq_call = NoAdjust
    /\ NoIterator

\* The caller's iterator it_ and the operations on it. The caller keeps its
\* iterators inside [begin(), end()] and dereferences none at end().
Position(it) == it.f - seq_.begin.f
Positions == 0..(seq_.end.f - seq_.begin.f)
IteratorCall(name, n, it, ret) ==
    /\ Position(it) \in Positions
    /\ Position(ret) \in Positions
    /\ it_' = it
    /\ it_call' = <<name, n>>
    /\ it_ret' = ret
    /\ UNCHANGED <<seq_, seq_data, seq_bytes, seq_call, storeVars>>

\* it = begin()
Begin == IteratorCall("begin", 0, seq_.begin, seq_.begin)
\* ++it
PreIncrement ==
    IteratorCall("++it", 1, iterator_advance(it_, 1), iterator_advance(it_, 1))
\* it++: the copy is advanced and returned, *this is left where it was.
PostIncrement ==
    IteratorCall("it++", 1, it_, iterator_advance(it_, 1))
\* it += n, it -= n
Steps == (0 - MaxElements)..MaxElements
PlusAssign ==
    \E n \in Steps :
        IteratorCall("+=", n, iterator_advance(it_, n), iterator_advance(it_, n))
MinusAssign ==
    \E n \in Steps :
        IteratorCall("-=", n, iterator_advance(it_, 0 - n),
                     iterator_advance(it_, 0 - n))
\* it = it + n, it = it - n
Plus ==
    \E n \in Steps :
        IteratorCall("+", n, iterator_advance(it_, n), iterator_advance(it_, n))
Minus ==
    \E n \in Steps :
        IteratorCall("-", n, iterator_advance(it_, 0 - n),
                     iterator_advance(it_, 0 - n))
\* it[n]: *(it + n)
Subscript ==
    \E n \in Steps :
        /\ Position(iterator_advance(it_, n)) < seq_.end.f - seq_.begin.f
        /\ IteratorCall("[]", n, it_, iterator_advance(it_, n))

\* it == r, it != r, r - it, it < r, it > r, it >= r, it <= r, where r is the
\* iterator the last operation returned; the result is recorded with the call.
Equal == IteratorCall("==", operator_eq(it_, it_ret), it_, it_ret)
NotEqual == IteratorCall("!=", operator_ne(it_, it_ret), it_, it_ret)
Distance == IteratorCall("distance", operator_minus(it_ret, it_), it_, it_ret)
Less == IteratorCall("<", operator_lt(it_, it_ret), it_, it_ret)
Greater == IteratorCall(">", operator_gt(it_, it_ret), it_, it_ret)
GreaterEqual == IteratorCall(">=", operator_ge(it_, it_ret), it_, it_ret)
LessEqual == IteratorCall("<=", operator_le(it_, it_ret), it_, it_ret)

\* A view over some blocks, freshly made or adjusted once, and an iterator
\* at its begin().
InitIterator ==
    /\ \E a \in ViewArrays :
          store_ = [i \in DOMAIN a |-> [a[i] EXCEPT !.id = i]]
    /\ limit_ = default_min_block_size
    /\ min_block_size_ = MaxElementSize
    /\ vec_capacity = Len(store_)
    /\ vec_data = 0
    /\ allocated = Len(store_)
    /\ freed = <<>>
    /\ sc_call = <<"construct", limit_>>
    /\ sc_pre = <<>>
    /\ sc_path = "none"
    /\ sc_assert = FALSE
    /\ sc_calls = 0
    /\ seq_data = 0
    /\ seq_bytes = Buffers(buffer_sequence(0, Len(store_)), store_, NoElement)
    /\ \/ seq_ = buffer_sequence(0, Len(store_)) /\ seq_call = NoAdjust
       \/ \E pos \in AdjustArgs : \E limit \in AdjustArgs :
             /\ seq_ = adjust(buffer_sequence(0, Len(store_)), pos, limit,
                              store_, NoElement)
             /\ seq_call = [pos |-> pos, limit |-> limit,
                            pre |-> buffer_sequence(0, Len(store_)), count |-> 1]
    /\ it_ = seq_.begin
    /\ it_call = <<"none", 0>>
    /\ it_ret = seq_.begin

(***************************************************************************)
(*        dynamic_buffer_v0_proxy over flat_static_buffer_base             *)
(***************************************************************************)

\* data(): the readable bytes as one buffer <<data, size>>.
data(b) == <<b.in, dist(b.in, b.out)>>

\* data_impl(pos, n)
data_impl(b, pos, n) ==
    LET result == data(b) IN
    LET skip == IF pos < result[2] THEN pos ELSE result[2] IN
    LET rest == <<result[1] + skip, result[2] - skip>> IN
    <<rest[1], IF n < rest[2] THEN n ELSE rest[2]>>

\* dynamic_buffer_v0_proxy::size, max_size, consume, data
proxy_size(b) == size(b)
proxy_max_size(b) == max_size(b)
proxy_consume(b, n) == consume(b, n)
proxy_data(b, pos, n) == data_impl(b, pos, n)

\* A variant of grow that prepares without committing.
grow_without_commit(b, n) == prepare(b, n)

\* dynamic_buffer_v0_proxy::grow(n): commit(buffer_size(prepare(n)))
grow(b, n) ==
    LET p == prepare(b, n) IN
    IF p.threw THEN p ELSE commit(p.buf, p.ret[2])

\* A variant of shrink that erases from the front of the input area.
shrink_from_front(b, n) ==
    LET m == IF size(b) < n THEN size(b) ELSE n IN
    Done([b EXCEPT !.in = b.in + m, !.last = b.out], FALSE, <<>>)

\* dynamic_buffer_v0_proxy::shrink(n), which reaches shrink_impl(n)
shrink(b, n) == shrink_impl(b, n)

ProxyGrow == \E n \in Sizes : Call("grow", n, grow(Buf, n))
ProxyShrink == \E n \in Sizes : Call("shrink", n, shrink(Buf, n))
ProxyConsume == \E n \in Sizes : Call("consume", n, proxy_consume(Buf, n))

\* data(pos, n); the call is recorded as <<"data", pos, n>>.
ProxyData ==
    \E pos \in Sizes : \E n \in Sizes :
        /\ fb_call' = <<"data", pos, n>>
        /\ fb_threw' = FALSE
        /\ fb_ret' = proxy_data(Buf, pos, n)
        /\ fb_pre' = [in |-> in_, out |-> out_, last |-> last_,
                      readable |-> readable(Buf)]
        /\ UNCHANGED <<begin_, in_, out_, last_, end_, mem, fb_prepared>>

\* The caller stores a byte through the mutable buffers data(pos, n) returned.
ProxyStore ==
    \E i \in 0..(out_ - in_ - 1) : \E v \in FlatBytes :
        Call("store", i, Done([Buf EXCEPT !.mem[in_ + i] = v], FALSE, <<>>))

(***************************************************************************)
(*            dynamic_buffer_handle with asio v2 behaviour                 *)
(***************************************************************************)

\* impl_class: the dynamic buffer and the count of prepared bytes.
Handle == [buf |-> Buf, prepared |-> prepared]

\* What a member function of the handle leaves.
HandleDone(b, p, threw, ret) ==
    [buf |-> b, prepared |-> p, threw |-> threw, ret |-> ret]

\* commit(n)
handle_commit(h, n) ==
    HandleDone(IF n < h.prepared THEN shrink(h.buf, h.prepared - n).buf
               ELSE h.buf,
               0, FALSE, <<>>)

\* consume(n)
handle_consume(h, n) ==
    HandleDone(proxy_consume(h.buf, n).buf, h.prepared, FALSE, <<>>)

\* size(): dyn_buf.size() - prepared in std::size_t
handle_size(h) == (proxy_size(h.buf) - h.prepared) % SizeMod

\* data()
handle_data(h) ==
    proxy_data(h.buf, (proxy_size(h.buf) - h.prepared) % SizeMod, h.prepared)

\* max_size()
handle_max_size(h) == proxy_max_size(h.buf)

\* prepare(n)
handle_prepare(h, n) ==
    IF proxy_size(h.buf) + n > proxy_max_size(h.buf)
    THEN HandleDone(h.buf, h.prepared, TRUE, <<>>)
    ELSE LET g == grow(h.buf, n) IN
         IF g.threw
         THEN HandleDone(g.buf, n, TRUE, <<>>)
         ELSE HandleDone(g.buf, n, FALSE,
                         proxy_data(g.buf, (proxy_size(g.buf) - n) % SizeMod, n))

\* A call of a member function of the handle.
HandleCall(name, arg, d) ==
    /\ Call(name, arg, Done(d.buf, d.threw, d.ret))
    /\ prepared' = d.prepared
    /\ dh_pre' = prepared

HandlePrepare == \E n \in Sizes : HandleCall("prepare", n, handle_prepare(Handle, n))
HandleCommit == \E n \in Sizes : HandleCall("commit", n, handle_commit(Handle, n))
HandleConsume == \E n \in Sizes : HandleCall("consume", n, handle_consume(Handle, n))
HandleData ==
    HandleCall("data", 0, HandleDone(Buf, prepared, FALSE, handle_data(Handle)))

\* The caller stores a byte through the region the last prepare returned.
HandleStore ==
    /\ fb_call[1] = "prepare" /\ ~fb_threw
    /\ \E i \in 0..(fb_ret[2] - 1) : \E v \in FlatBytes :
          mem' = [mem EXCEPT ![fb_ret[1] + i] = v]
    /\ UNCHANGED <<begin_, in_, out_, last_, end_, fb_call, fb_threw, fb_ret,
                   fb_pre, fb_prepared, prepared, dh_pre>>

(***************************************************************************)
(*                          detail::buffers_pair                           *)
(***************************************************************************)

\* The longest buffer of a pair, and the address the second region starts at.
MaxPairSize == 2
SecondRegion == MaxPairSize + 1

\* A default-constructed buffer, and the pair before any construction.
NoBuffer == <<nullptr, 0>>
NoSubRange == [other |-> <<NoBuffer, NoBuffer>>, pos |-> 0, n |-> 0,
               done |-> FALSE]

\* A variant of the constructor that keeps the second buffer when the first
\* one already holds n bytes.
buffers_pair_keeps_second(other, pos, n) ==
    LET skip == pos >= other[1][2] IN
    LET pos1 == IF skip THEN pos - other[1][2] ELSE pos IN
    LET b == IF skip THEN <<other[2], NoBuffer>> ELSE other IN
    IF pos1 >= b[1][2]
    THEN <<NoBuffer, b[2]>>
    ELSE LET first == <<b[1][1] + pos1, b[1][2] - pos1>> IN
         IF n <= first[2]
         THEN <<<<first[1], n>>, b[2]>>
         ELSE LET n1 == n - first[2] IN
              IF n1 <= b[2][2]
              THEN <<first, <<b[2][1], n1>>>>
              ELSE <<first, b[2]>>

\* buffers_pair(other, pos, n)
buffers_pair(other, pos, n) ==
    LET skip == pos >= other[1][2] IN
    LET pos1 == IF skip THEN pos - other[1][2] ELSE pos IN
    LET b == IF skip THEN <<other[2], NoBuffer>> ELSE other IN
    IF pos1 >= b[1][2]
    THEN <<NoBuffer, b[2]>>
    ELSE LET first == <<b[1][1] + pos1, b[1][2] - pos1>> IN
         IF n <= first[2]
         THEN <<<<first[1], n>>, NoBuffer>>
         ELSE LET n1 == n - first[2] IN
              IF n1 <= b[2][2]
              THEN <<first, <<b[2][1], n1>>>>
              ELSE <<first, b[2]>>

\* The pairs and the (pos, n) arguments the constructor is given.
Pairs == {<<<<0, s0>>, <<SecondRegion, s1>>>> :
              s0 \in 0..MaxPairSize, s1 \in 0..MaxPairSize}
PairArgs == 0..(2 * MaxPairSize + 1)

\* The delegated copy constructor has run, the body has not.
InitPair ==
    /\ bp_call \in [other : Pairs, pos : PairArgs, n : PairArgs, done : {FALSE}]
    /\ b_ = bp_call.other

\* The body of the (other, pos, n) constructor.
Construct ==
    /\ ~bp_call.done
    /\ bp_call # NoSubRange
    /\ b_' = buffers_pair(b_, bp_call.pos, bp_call.n)
    /\ bp_call' = [bp_call EXCEPT !.done = TRUE]

(***************************************************************************)
(*          http::basic_parser, as parser_test drives it                   *)
(* A message is a sequence of bytes: a start line ("Q" for a request, "S"  *)
(* for a response), field lines ("L" for Content-Length followed by its    *)
(* comma-separated values, "T" for Transfer-Encoding: chunked, "X" for any *)
(* other field), an empty line, and the body; every line ends in CR LF.    *)
(***************************************************************************)

\* The longest body, or chunk, of a message.
MaxBody == 2

CR == "CR"
LF == "LF"
BodyBytes == {"a", "b"}
DecimalDigits == <<"0", "1", "2", "3", "4", "5", "6", "7", "8", "9">>
Digit(k) == DecimalDigits[k + 1]
DigitValue(d) == CHOOSE k \in 0..9 : DecimalDigits[k + 1] = d

\* error_code values
no_error == "no_error"
need_more == "need_more"
bad_content_length == "bad_content_length"
partial_message == "partial_message"

\* content_length() == boost::none, and the outcome of unequal values.
none == -1
mismatch == -2

\* The element of a set of one element.
Only(S) == CHOOSE x \in S : TRUE

\* A parser as constructed, with eager(e).
parser(e) ==
    [state |-> "header", len |-> 0, eager |-> e, kind |-> "", fields |-> <<>>,
     content_length |-> none, chunked |-> FALSE, need_eof |-> FALSE,
     body |-> <<>>]

is_done(p) == p.state = "complete"
need_eof(p) == p.need_eof

\* The index of the last byte of the first empty line, 0 if there is none.
find_eom(buf) ==
    LET ends == {i \in 4..Len(buf) : SubSeq(buf, i - 3, i) = <<CR, LF, CR, LF>>} IN
    IF ends = {} THEN 0 ELSE CHOOSE i \in ends : \A j \in ends : i <= j

\* The lines of a header, without their CR LF.
RECURSIVE split_lines(_)
split_lines(buf) ==
    IF buf = <<>> THEN <<>>
    ELSE LET k == CHOOSE i \in 1..Len(buf) :
                      buf[i] = CR /\ \A j \in 1..(i - 1) : buf[j] # CR IN
         <<SubSeq(buf, 1, k - 1)>> \o split_lines(SubSeq(buf, k + 2, Len(buf)))

\* The values of a comma-separated list of decimal numbers.
token_list(value) ==
    [i \in 1..((Len(value) + 1) \div 2) |-> DigitValue(value[2 * i - 1])]

\* A variant that compares the values of one field line only with each other.
RECURSIVE content_length_per_field(_, _)
content_length_per_field(tokens, existing) ==
    IF tokens = <<>> THEN existing
    ELSE IF Len(tokens) > 1 /\ tokens[1] # tokens[2] THEN mismatch
    ELSE content_length_per_field(Tail(tokens), Head(tokens))

\* Content-Length: every value must equal the one already known.
RECURSIVE content_length_values(_, _)
content_length_values(tokens, existing) ==
    IF tokens = <<>> THEN existing
    ELSE IF existing # none /\ Head(tokens) # existing THEN mismatch
    ELSE content_length_values(Tail(tokens), Head(tokens))

\* One field line of the header.
do_field(h, line) ==
    IF h.ec # no_error THEN h
    ELSE IF line[1] = "L"
    THEN LET v == content_length_values(token_list(Tail(line)),
                                        h.p.content_length) IN
         IF v = mismatch
         THEN [h EXCEPT !.ec = bad_content_length]
         ELSE [h EXCEPT !.p.content_length = v,
                        !.p.fields = Append(@, line)]
    ELSE IF line[1] = "T"
    THEN [h EXCEPT !.p.chunked = TRUE, !.p.fields = Append(@, line)]
    ELSE [h EXCEPT !.p.fields = Append(@, line)]

RECURSIVE parse_fields(_, _)
parse_fields(h, lines) ==
    IF lines = <<>> THEN h
    ELSE Only({parse_fields(h1, Tail(lines)) : h1 \in {do_field(h, Head(lines))}})

\* What follows the header: chunks, a body of known length, a body that
\* lasts until the end of the stream (responses only), or nothing.
finish_header(p) ==
    IF p.chunked THEN [p EXCEPT !.state = "chunk_header"]
    ELSE IF p.content_length # none
    THEN IF p.content_length = 0 THEN [p EXCEPT !.state = "complete"]
         ELSE [p EXCEPT !.state = "body", !.len = p.content_length]
    ELSE IF p.kind = "S"
    THEN [p EXCEPT !.state = "body_to_eof", !.need_eof = TRUE]
    ELSE [p EXCEPT !.state = "complete"]

\* What one step of put leaves: the parser, the bytes used, the error.
Put(p, used, ec) == [p |-> p, used |-> used, ec |-> ec]

\* The header is parsed once all of it is in the buffer.
header_fields(p, lines) ==
    parse_fields([p |-> [p EXCEPT !.kind = lines[1][1]], ec |-> no_error],
                 Tail(lines))

parse_header(p, rest) ==
    Only({IF eom = 0 THEN Put(p, 0, need_more)
          ELSE Only({IF h.ec # no_error THEN Put(h.p, 0, h.ec)
                     ELSE Put(finish_header(h.p), eom, no_error) :
                     h \in {header_fields(p, split_lines(SubSeq(rest, 1, eom - 2)))}}) :
          eom \in {find_eom(rest)}})

\* A variant of the body step that leaves the last byte of the body unread.
parse_body_short(p, rest) ==
    LET k == IF p.len < Len(rest) THEN p.len ELSE Len(rest) IN
    Put([p EXCEPT !.body = @ \o SubSeq(rest, 1, k - 1), !.len = @ - k,
                  !.state = IF p.len = k THEN "complete" ELSE "body"],
        k, no_error)

\* A body of known length takes what is there, up to what is missing.
parse_body(p, rest) ==
    LET k == IF p.len < Len(rest) THEN p.len ELSE Len(rest) IN
    Put([p EXCEPT !.body = @ \o SubSeq(rest, 1, k), !.len = @ - k,
                  !.state = IF p.len = k THEN "complete" ELSE "body"],
        k, no_error)

parse_body_to_eof(p, rest) ==
    Put([p EXCEPT !.body = @ \o rest], Len(rest), no_error)

\* A chunk header is one digit and CR LF; the last chunk has size 0 and is
\* followed by the empty line that ends the message.
parse_chunk_header(p, rest) ==
    IF Len(rest) < 3 THEN Put(p, 0, need_more)
    ELSE IF DigitValue(rest[1]) > 0
    THEN Put([p EXCEPT !.state = "chunk_body", !.len = DigitValue(rest[1])],
             3, no_error)
    ELSE IF Len(rest) < 5 THEN Put(p, 0, need_more)
    ELSE Put([p EXCEPT !.state = "complete"], 5, no_error)

parse_chunk_body(p, rest) ==
    LET k == IF p.len < Len(rest) THEN p.len ELSE Len(rest) IN
    Put([p EXCEPT !.body = @ \o SubSeq(rest, 1, k), !.len = @ - k,
                  !.state = IF p.len = k THEN "chunk_crlf" ELSE "chunk_body"],
        k, no_error)

parse_chunk_crlf(p, rest) ==
    IF Len(rest) < 2 THEN Put(p, 0, need_more)
    ELSE Put([p EXCEPT !.state = "chunk_header"], 2, no_error)

\* basic_parser::put(buffer, ec): one step for the current state, and in
\* eager mode further steps while bytes are left and the message is not done.
\* The step of put for the state the parser is in.
parse_step(p, rest) ==
    CASE p.state = "header" -> parse_header(p, rest)
      [] p.state = "body" -> parse_body(p, rest)
      [] p.state = "body_to_eof" -> parse_body_to_eof(p, rest)
      [] p.state = "chunk_header" -> parse_chunk_header(p, rest)
      [] p.state = "chunk_body" -> parse_chunk_body(p, rest)
      [] p.state = "chunk_crlf" -> parse_chunk_crlf(p, rest)

RECURSIVE put_loop(_, _, _)
put_loop(p, buf, used) ==
    IF p.state = "complete" THEN Put(p, used, no_error)
    ELSE IF used >= Len(buf) THEN Put(p, used, need_more)
    ELSE Only({IF r.ec # no_error THEN Put(r.p, used + r.used, r.ec)
               ELSE IF used + r.used < Len(buf) /\ ~is_done(r.p) /\ p.eager
               THEN put_loop(r.p, buf, used + r.used)
               ELSE Put(r.p, used + r.used, no_error) :
               r \in {parse_step(p, SubSeq(buf, used + 1, Len(buf)))}})

parser_put(p, buf) == put_loop(p, buf, 0)

\* basic_parser::put_eof(ec)
put_eof(p) ==
    IF p.state = "body_to_eof" THEN Put([p EXCEPT !.state = "complete"], 0, no_error)
    ELSE IF p.state = "complete" THEN Put(p, 0, no_error)
    ELSE Put(p, 0, partial_message)

\* parser_test::put(buffers, p, ec): put until the message is done.
RECURSIVE put(_, _)
put(p, cb) ==
    Only({IF r.ec # no_error THEN Put(r.p, r.used, r.ec)
          ELSE Only({IF e.ec # no_error \/ is_done(e.p) THEN e
                     ELSE put(e.p, SubSeq(cb, r.used + 1, Len(cb))) :
                     e \in {IF need_eof(r.p) /\ r.used >= Len(cb)
                            THEN put_eof(r.p)
                            ELSE Put(r.p, 0, no_error)}}) :
          r \in {parser_put(p, cb)}})

\* The messages of the tests.
Line(bytes) == bytes \o <<CR, LF>>
Bodies(lo, hi) == UNION {[1..k -> BodyBytes] : k \in lo..hi}
Chunk(body) == Line(<<Digit(Len(body))>>) \o body \o <<CR, LF>>
LastChunk == Line(<<"0">>) \o <<CR, LF>>
ValidMessages ==
    {Line(<<"Q">>) \o Line(<<"X">>) \o <<CR, LF>>}
    \cup {Line(<<k>>) \o Line(<<"L", Digit(Len(b))>>) \o <<CR, LF>> \o b :
              k \in {"Q", "S"}, b \in Bodies(0, MaxBody)}
    \cup {Line(<<"S">>) \o Line(<<"X">>) \o <<CR, LF>> \o b :
              b \in Bodies(0, MaxBody)}
    \cup {Line(<<k>>) \o Line(<<"T">>) \o <<CR, LF>> \o LastChunk :
              k \in {"Q", "S"}}
    \cup {Line(<<"S">>) \o Line(<<"T">>) \o <<CR, LF>> \o Chunk(b) \o LastChunk :
              b \in Bodies(1, MaxBody)}
    \cup {Line(<<"Q">>) \o Line(<<"T">>) \o <<CR, LF>> \o Chunk(b) \o Chunk(c) \o LastChunk :
              b \in Bodies(1, 1), c \in Bodies(1, MaxBody)}

\* Responses carrying Content-Length values in one or two field lines.
LengthValues == {0, 1}
ValueLists == UNION {[1..k -> LengthValues] : k \in 1..3}
LengthLine(vs) ==
    Line(<<"L", Digit(vs[1])>> \o
         IF Len(vs) > 1 THEN <<",", Digit(vs[2])>> \o
              IF Len(vs) > 2 THEN <<",", Digit(vs[3])>> ELSE <<>>
         ELSE <<>>)
LengthMessages ==
    {Line(<<"S">>) \o LengthLine(a) \o <<CR, LF>> : a \in ValueLists}
    \cup {Line(<<"S">>) \o LengthLine(a) \o LengthLine(b) \o <<CR, LF>> :
              a \in ValueLists, b \in ValueLists}

\* A test that has not started.
Test(name, s0, n) ==
    [name |-> name, s0 |-> s0, n |-> n, s |-> s0, pc |-> "start",
     ec |-> no_error, first_done |-> FALSE, first_used |-> 0]

\* doMatrix: parse a single buffer.
SingleBuffer ==
    /\ test_.name = "single" /\ test_.pc = "start"
    /\ \E r \in {put(parser(FALSE), test_.s0)} :
       /\ parser_' = r.p
       /\ test_' = [test_ EXCEPT !.ec = r.ec,
                                 !.pc = IF r.ec # no_error THEN "failed" ELSE "done"]

\* doMatrix: parse two buffers, the first n bytes.
FirstPut ==
    /\ test_.name = "split" /\ test_.pc = "start"
    /\ \E r \in {parser_put(parser(TRUE), SubSeq(test_.s, 1, test_.n))} :
       LET ec == IF r.ec = need_more THEN no_error ELSE r.ec IN
       /\ parser_' = r.p
       /\ test_' = [test_ EXCEPT !.s = SubSeq(@, r.used + 1, Len(@)),
                                 !.ec = ec,
                                 !.first_done = is_done(r.p),
                                 !.first_used = r.used,
                                 !.pc = IF ec # no_error THEN "failed" ELSE "second"]

\* doMatrix: parse two buffers, what is left.
SecondPut ==
    /\ test_.name = "split" /\ test_.pc = "second"
    /\ \E r \in {parser_put(parser_, test_.s)} :
       /\ parser_' = r.p
       /\ test_' = [test_ EXCEPT !.s = SubSeq(@, r.used + 1, Len(@)),
                                 !.ec = r.ec,
                                 !.pc = IF r.ec # no_error THEN "failed" ELSE "eof"]

\* doMatrix: put_eof if the parser needs it.
PutEof ==
    /\ test_.name = "split" /\ test_.pc = "eof"
    /\ \E r \in {IF need_eof(parser_) THEN put_eof(parser_)
                  ELSE Put(parser_, 0, no_error)} :
       /\ parser_' = r.p
       /\ test_' = [test_ EXCEPT !.ec = r.ec,
                                 !.pc = IF r.ec # no_error THEN "failed" ELSE "done"]

\* testIssue1880: checkPass and checkFail put the message once.
CheckPut ==
    /\ test_.name = "issue1880" /\ test_.pc = "start"
    /\ \E r \in {parser_put(parser(FALSE), test_.s0)} :
       /\ parser_' = r.p
       /\ test_' = [test_ EXCEPT !.ec = r.ec, !.pc = "done"]

InitParser ==
    /\ parser_ = parser(FALSE)
    /\ \/ \E s0 \in ValidMessages : test_ = Test("single", s0, 0)
       \/ \E s0 \in ValidMessages : \E n \in 1..(Len(s0) - 1) :
              test_ = Test("split", s0, n)
       \/ \E s0 \in LengthMessages : test_ = Test("issue1880", s0, 0)

(***************************************************************************)
(*                         buffered_read_stream                            *)
(***************************************************************************)

\* Bounds: the bytes the next layer produces in all, the largest capacity
\* setting, max_size() of the internal buffer and the largest caller buffer.
MaxStream == 3
MaxCapacity == 3
MaxInternal == 2
MaxBuffers == 2

std_min(a, b) == IF b < a THEN b ELSE a
std_max(a, b) == IF a < b THEN b ELSE a

\* The internal DynamicBuffer: its readable bytes and the size of the region
\* the last prepare returned.
DynamicBuffer(d, p) == [data |-> d, prepared |-> p]
dyn_size(b) == Len(b.data)
dyn_max_size(b) == MaxInternal
dyn_capacity(b) == Len(b.data) + b.prepared
dyn_data(b) == b.data
dyn_prepare(b, n) == [b EXCEPT !.prepared = n]

\* A variant of commit that drops the first byte written.
dyn_commit_drops_first(b, written, n) ==
    DynamicBuffer(b.data \o
        [i \in 1..(std_min(n, b.prepared) - 1) |->
            IF i + 1 <= Len(written) THEN written[i + 1] ELSE 0], 0)

\* commit(n): the first min(n, prepared) bytes of the prepared region, into
\* which written was stored, are appended to the readable bytes.
dyn_commit(b, written, n) ==
    DynamicBuffer(b.data \o
        [i \in 1..std_min(n, b.prepared) |->
            IF i <= Len(written) THEN written[i] ELSE 0], 0)

\* consume(n): the first min(n, size()) readable bytes are removed.
dyn_consume(b, n) ==
    [b EXCEPT !.data = SubSeq(b.data, std_min(n, Len(b.data)) + 1, Len(b.data))]

\* net::buffer_copy(target, source) into buffers of size c in all: the bytes
\* copied, which are the first min(c, size of source) bytes of source.
buffer_copy(c, source) == SubSeq(source, 1, std_min(c, Len(source)))

\* read_size(buffer, max_size): how much to prepare for the next read.
read_size(b, max) ==
    std_min(std_max(512, dyn_capacity(b) - dyn_size(b)),
            std_min(max, dyn_max_size(b) - dyn_size(b)))

\* The stream as a member function sees it.
Stream == [buffer |-> s_buffer_, capacity |-> s_capacity_]

\* The bytes the next layer produces are numbered: byte i of its stream is i.
stream_bytes(from, n) == [i \in 1..n |-> from + i]

\* What a read_some or async_read_some of the next layer into buffers of size
\* r in all can report: one or more bytes without error (none when r = 0), or
\* an error and no bytes.
StreamErrors == {"eof"}
Outcomes(r) ==
    {[ec |-> Success, n |-> k] :
        k \in IF r = 0 THEN {0} ELSE 1..std_min(r, MaxStream - next_layer_)}
    \cup {[ec |-> e, n |-> 0] : e \in StreamErrors}

\* What one call of read_op::operator() leaves: step_, what it started
\* ("async_read_some" on the next layer with buffers of size region, "post",
\* or "complete" for self.complete(ec, bytes_transferred)), the internal
\* buffer, and ec and the bytes handed over on completion.
Started(step, effect, buf, region) ==
    [step |-> step, effect |-> effect, buffer |-> buf, region |-> region,
     ec |-> Success, bytes |-> <<>>]
Completed(step, buf, ec, bytes) ==
    [step |-> step, effect |-> "complete", buffer |-> buf, region |-> 0,
     ec |-> ec, bytes |-> bytes]

\* A variant of case 0 that serves buffered bytes at once instead of posting.
read_op_0_inline(s, b, ec, written) ==
    IF dyn_size(s.buffer) = 0
    THEN IF s.capacity = 0
         THEN Started(1, "async_read_some", s.buffer, b)
         ELSE Started(2, "async_read_some",
                      dyn_prepare(s.buffer, read_size(s.buffer, s.capacity)),
                      read_size(s.buffer, s.capacity))
    ELSE Completed(3, dyn_consume(s.buffer, Len(buffer_copy(b, dyn_data(s.buffer)))),
                   ec, buffer_copy(b, dyn_data(s.buffer)))

\* case 0: read unbuffered, read into the internal buffer, or post.
read_op_0(s, b, ec, written) ==
    IF dyn_size(s.buffer) = 0
    THEN IF s.capacity = 0
         THEN Started(1, "async_read_some", s.buffer, b)
         ELSE Started(2, "async_read_some",
                      dyn_prepare(s.buffer, read_size(s.buffer, s.capacity)),
                      read_size(s.buffer, s.capacity))
    ELSE Started(3, "post", s.buffer, 0)

\* case 1: upcall; the next layer stored written in b_.
read_op_1(s, b, ec, written) ==
    Completed(1, s.buffer, ec, written)

\* A variant of case 3 that does not consume what it copied.
read_op_3_no_consume(s, b, ec, written) ==
    Completed(3, s.buffer, ec, buffer_copy(b, dyn_data(s.buffer)))

\* case 3: copy from the internal buffer into b_ and consume what was copied.
read_op_3(s, b, ec, written) ==
    Completed(3, dyn_consume(s.buffer, Len(buffer_copy(b, dyn_data(s.buffer)))),
              ec, buffer_copy(b, dyn_data(s.buffer)))

\* case 2: commit what the next layer stored, then fall through to case 3.
read_op_2(s, b, ec, written) ==
    read_op_3([s EXCEPT !.buffer = dyn_commit(s.buffer, written, Len(written))],
              b, ec, written)

\* read_op::operator()(self, ec, bytes_transferred) at step_ = step, written
\* being the bytes_transferred bytes the completed operation stored.
read_op(s, step, b, ec, written) ==
    CASE step = 0 -> read_op_0(s, b, ec, written)
      [] step = 1 -> read_op_1(s, b, ec, written)
      [] step = 2 -> read_op_2(s, b, ec, written)
      [] OTHER -> read_op_3(s, b, ec, written)

\* The size of the buffers read_some(buffers, ec) hands to the next layer's
\* read_some, or none when it does not call it.
read_some_region(s, b) ==
    IF dyn_size(s.buffer) # 0 THEN none
    ELSE IF s.capacity = 0 THEN b
    ELSE read_size(s.buffer, s.capacity)

\* What read_some reports and leaves.
Returned(buf, ec, bytes) == [buffer |-> buf, ec |-> ec, bytes |-> bytes]

\* A variant of read_some that does not consume what it copied.
read_some_no_consume(s, b, ec, written) ==
    IF dyn_size(s.buffer) = 0
    THEN IF s.capacity = 0
         THEN Returned(s.buffer, ec, written)
         ELSE LET buf == dyn_commit(dyn_prepare(s.buffer,
                                        read_size(s.buffer, s.capacity)),
                                    written, Len(written)) IN
              IF ec # Success
              THEN Returned(buf, ec, <<>>)
              ELSE Returned(buf, ec, buffer_copy(b, dyn_data(buf)))
    ELSE Returned(s.buffer, Success, buffer_copy(b, dyn_data(s.buffer)))

\* read_some(buffers, ec); ec and written are what the next layer's read_some
\* reports and stores when it is called.
read_some(s, b, ec, written) ==
    IF dyn_size(s.buffer) = 0
    THEN IF s.capacity = 0
         THEN Returned(s.buffer, ec, written)
         ELSE LET buf == dyn_commit(dyn_prepare(s.buffer,
                                        read_size(s.buffer, s.capacity)),
                                    written, Len(written)) IN
              IF ec # Success
              THEN Returned(buf, ec, <<>>)
              ELSE Returned(dyn_consume(buf, Len(buffer_copy(b, dyn_data(buf)))),
                            ec, buffer_copy(b, dyn_data(buf)))
    ELSE Returned(dyn_consume(s.buffer, Len(buffer_copy(b, dyn_data(s.buffer)))),
                  Success, buffer_copy(b, dyn_data(s.buffer)))

\* No asynchronous read in flight; no read called yet; nothing reported yet.
NoOp == [pending |-> "none", step_ |-> 0, b |-> 0]
NoRead ==
    [kind |-> "none", buffer |-> DynamicBuffer(<<>>, 0), capacity |-> 0,
     b |-> 0, issued |-> FALSE, ec |-> Success, written |-> <<>>]
NoRet == [ec |-> Success, bytes |-> <<>>, from |-> "none"]

\* The latest read call as it starts: the stream before it, the size of the
\* caller's buffers, and whether it issued a read on the next layer.
ReadCall(kind, b, issued) ==
    [kind |-> kind, buffer |-> s_buffer_, capacity |-> s_capacity_, b |-> b,
     issued |-> issued, ec |-> Success, written |-> <<>>]

\* The caller gets (ec, bytes): from a handler invocation made from the
\* initiating call, by the next layer or by the executor, or from read_some
\* returning.
Report(buf, ec, bytes, from) ==
    /\ s_buffer_' = buf
    /\ op_' = NoOp
    /\ delivered' = delivered \o bytes
    /\ rs_ret' = [ec |-> ec, bytes |-> bytes, from |-> from]

\* read_op::operator() has run: it completed, or it waits for the next layer
\* or for the executor.  invoked counts this call's handler invocations before.
Resume(r, b, from, invoked) ==
    IF r.effect = "complete"
    THEN /\ Report(r.buffer, r.ec, r.bytes, from)
         /\ rs_invoked' = invoked + 1
    ELSE /\ s_buffer_' = r.buffer
         /\ op_' = [pending |-> IF r.effect = "post" THEN "post" ELSE "next_layer",
                    step_ |-> r.step, b |-> b]
         /\ rs_invoked' = invoked
         /\ UNCHANGED <<delivered, rs_ret>>

\* async_read_some(buffers, handler): the handler goes straight to the next
\* layer when nothing is buffered and capacity_ is 0; otherwise async_compose
\* makes a read_op and calls it once.
AsyncReadSome ==
    /\ op_.pending = "none"
    /\ \E b \in 0..MaxBuffers :
          IF dyn_size(s_buffer_) = 0 /\ s_capacity_ = 0
          THEN /\ op_' = [pending |-> "passthrough", step_ |-> 0, b |-> b]
               /\ rs_call' = ReadCall("async", b, TRUE)
               /\ rs_invoked' = 0
               /\ UNCHANGED <<s_buffer_, delivered, rs_ret>>
          ELSE \E r \in {read_op(Stream, 0, b, Success, <<>>)} :
               /\ rs_call' = ReadCall("async", b, r.effect = "async_read_some")
               /\ Resume(r, b, "initiation", 0)
    /\ UNCHANGED <<s_capacity_, next_layer_>>

\* The next layer's asynchronous read completes: it invokes the caller's
\* handler on the pass-through path and read_op otherwise.
NextLayerCompletes ==
    /\ op_.pending \in {"passthrough", "next_layer"}
    /\ \E o \in Outcomes(IF op_.pending = "passthrough" \/ op_.step_ = 1
                         THEN op_.b ELSE s_buffer_.prepared) :
       \E written \in {stream_bytes(next_layer_, o.n)} :
          /\ next_layer_' = next_layer_ + o.n
          /\ rs_call' = [rs_call EXCEPT !.ec = o.ec, !.written = written]
          /\ IF op_.pending = "passthrough"
             THEN /\ Report(s_buffer_, o.ec, written, "next_layer")
                  /\ rs_invoked' = rs_invoked + 1
             ELSE Resume(read_op(Stream, op_.step_, op_.b, o.ec, written),
                         op_.b, "next_layer", rs_invoked)
    /\ UNCHANGED s_capacity_

\* The executor runs what case 0 posted: bind_front_handler(self, ec, 0).
PostRuns ==
    /\ op_.pending = "post"
    /\ Resume(read_op(Stream, op_.step_, op_.b, Success, <<>>),
              op_.b, "post", rs_invoked)
    /\ UNCHANGED <<s_capacity_, next_layer_, rs_call>>

\* read_some(buffers, ec), the next layer's read_some included.
ReadSome ==
    /\ op_.pending = "none"
    /\ \E b \in 0..MaxBuffers :
       \E region \in {read_some_region(Stream, b)} :
       \E o \in IF region = none THEN {[ec |-> Success, n |-> 0]}
                ELSE Outcomes(region) :
       \E written \in {stream_bytes(next_layer_, o.n)} :
       \E r \in {read_some(Stream, b, o.ec, written)} :
          /\ next_layer_' = next_layer_ + o.n
          /\ rs_call' = [ReadCall("sync", b, region # none)
                            EXCEPT !.ec = o.ec, !.written = written]
          /\ Report(r.buffer, r.ec, r.bytes, "sync")
    /\ UNCHANGED <<s_capacity_, rs_invoked>>

\* capacity(size), between reads.
SetCapacity ==
    /\ op_.pending = "none"
    /\ \E n \in 0..MaxCapacity :
          /\ n # s_capacity_
          /\ s_capacity_' = n
    /\ UNCHANGED <<s_buffer_, next_layer_, op_, delivered, rs_call, rs_ret,
                   rs_invoked>>

\* A stream as constructed: nothing buffered, capacity_ 0.
InitStream ==
    /\ s_buffer_ = DynamicBuffer(<<>>, 0)
    /\ s_capacity_ = 0
    /\ next_layer_ = 0
    /\ op_ = NoOp
    /\ delivered = <<>>
    /\ rs_call = NoRead
    /\ rs_ret = NoRet
    /\ rs_invoked = 0

(***************************************************************************)
(*                            Specifications                               *)
(***************************************************************************)

\* The state before a component has been used.
FlatIdle ==
    /\ mem = [i \in Offsets |-> 0]
    /\ begin_ = 0 /\ in_ = 0 /\ out_ = 0 /\ last_ = 0 /\ end_ = MemSize
    /\ fb_call = <<"reset", MemSize>>
    /\ fb_threw = FALSE
    /\ fb_ret = <<>>
    /\ fb_pre = [in |-> 0, out |-> 0, last |-> 0, readable |-> <<>>]
    /\ fb_prepared = 0

HandleIdle ==
    /\ prepared = 0
    /\ dh_pre = 0

PairIdle ==
    /\ b_ = <<NoBuffer, NoBuffer>>
    /\ bp_call = NoSubRange

SocksIdle ==
    /\ username_ = <<>>
    /\ password_ = <<>>
    /\ moved_handler = "invokes"
    /\ coro = 0
    /\ buffer_ = <<>>
    /\ outstanding = "none"
    /\ pending_tx = <<>>
    /\ wire = <<>>
    /\ reply = <<>>
    /\ io_log = <<>>
    /\ handler_calls = <<>>
    /\ escaped = FALSE
    /\ io_error = Success

StoreIdle ==
    /\ store_ = <<>>
    /\ limit_ = default_min_block_size
    /\ min_block_size_ = default_min_block_size
    /\ vec_capacity = 0
    /\ vec_data = 0
    /\ allocated = 0
    /\ freed = <<>>
    /\ sc_call = <<"construct", default_min_block_size>>
    /\ sc_pre = <<>>
    /\ sc_path = "none"
    /\ sc_assert = FALSE
    /\ sc_calls = 0
    /\ seq_ = NoSequence
    /\ seq_data = 0
    /\ seq_bytes = <<>>
    /\ seq_call = NoAdjust
    /\ NoIterator

ParserIdle ==
    /\ parser_ = parser(FALSE)
    /\ test_ = Test("none", <<>>, 0)

\* The components a specification of the block list or of the handshake
\* leaves untouched.
StreamIdle == InitStream

ViewsIdle == HandleIdle /\ PairIdle /\ ParserIdle /\ StreamIdle

InitS == InitSocks /\ FlatIdle /\ StoreIdle /\ ViewsIdle
InitF == InitFlat /\ SocksIdle /\ StoreIdle /\ ViewsIdle
InitC == InitStore /\ SocksIdle /\ FlatIdle /\ ViewsIdle
InitV == InitSeq /\ SocksIdle /\ FlatIdle /\ ViewsIdle
InitE == InitElement /\ SocksIdle /\ FlatIdle /\ ViewsIdle
InitI == InitIterator /\ SocksIdle /\ FlatIdle /\ ViewsIdle
InitB ==
    /\ SocksIdle /\ ViewsIdle
    /\ \/ InitFlat /\ StoreIdle
       \/ FlatIdle /\ InitStore
InitH == InitFlat /\ ViewsIdle /\ SocksIdle /\ StoreIdle
InitT ==
    /\ InitParser
    /\ SocksIdle /\ FlatIdle /\ StoreIdle /\ HandleIdle /\ PairIdle /\ StreamIdle
InitP ==
    /\ SocksIdle /\ StoreIdle /\ HandleIdle /\ ParserIdle /\ StreamIdle
    /\ \/ InitFlat /\ PairIdle
       \/ FlatIdle /\ InitPair
InitR ==
    /\ InitStream
    /\ SocksIdle /\ FlatIdle /\ StoreIdle /\ HandleIdle /\ PairIdle /\ ParserIdle

NextSocks ==
    \/ async_handshake_v5 /\ UNCHANGED <<flatVars, storeVars, seqVars, handleVars, pairVars, parserVars, streamVars>>
    \/ WriteCompletes /\ UNCHANGED <<flatVars, storeVars, seqVars, handleVars, pairVars, parserVars, streamVars>>
    \/ ReadCompletes /\ UNCHANGED <<flatVars, storeVars, seqVars, handleVars, pairVars, parserVars, streamVars>>
    \/ AuthWriteCompletes /\ UNCHANGED <<flatVars, storeVars, seqVars, handleVars, pairVars, parserVars, streamVars>>
    \/ AuthReadCompletes /\ UNCHANGED <<flatVars, storeVars, seqVars, handleVars, pairVars, parserVars, streamVars>>

NextFlat ==
    \/ Reset /\ UNCHANGED <<socksVars, storeVars, seqVars, handleVars, pairVars, parserVars, streamVars>>
    \/ Clear /\ UNCHANGED <<socksVars, storeVars, seqVars, handleVars, pairVars, parserVars, streamVars>>
    \/ Prepare /\ UNCHANGED <<socksVars, storeVars, seqVars, handleVars, pairVars, parserVars, streamVars>>
    \/ Commit /\ UNCHANGED <<socksVars, storeVars, seqVars, handleVars, pairVars, parserVars, streamVars>>
    \/ Consume /\ UNCHANGED <<socksVars, storeVars, seqVars, handleVars, pairVars, parserVars, streamVars>>
    \/ Shrink /\ UNCHANGED <<socksVars, storeVars, seqVars, handleVars, pairVars, parserVars, streamVars>>
    \/ Store /\ UNCHANGED <<socksVars, storeVars, seqVars, handleVars, pairVars, parserVars, streamVars>>

NextStore ==
    \/ Add /\ UNCHANGED <<socksVars, flatVars, handleVars, pairVars, parserVars, streamVars>>
    \/ ContainerConsume /\ UNCHANGED <<socksVars, flatVars, handleVars, pairVars, parserVars, streamVars>>
    \/ MakeSequence /\ UNCHANGED <<socksVars, flatVars, handleVars, pairVars, parserVars, streamVars>>

NextSeq ==
    \/ Adjust /\ UNCHANGED <<socksVars, flatVars, handleVars, pairVars, parserVars, streamVars>>

NextIterator ==
    \/ Begin /\ UNCHANGED <<socksVars, flatVars, handleVars, pairVars, parserVars, streamVars>>
    \/ PreIncrement /\ UNCHANGED <<socksVars, flatVars, handleVars, pairVars, parserVars, streamVars>>
    \/ PostIncrement /\ UNCHANGED <<socksVars, flatVars, handleVars, pairVars, parserVars, streamVars>>
    \/ PlusAssign /\ UNCHANGED <<socksVars, flatVars, handleVars, pairVars, parserVars, streamVars>>
    \/ MinusAssign /\ UNCHANGED <<socksVars, flatVars, handleVars, pairVars, parserVars, streamVars>>
    \/ Plus /\ UNCHANGED <<socksVars, flatVars, handleVars, pairVars, parserVars, streamVars>>
    \/ Minus /\ UNCHANGED <<socksVars, flatVars, handleVars, pairVars, parserVars, streamVars>>
    \/ Subscript /\ UNCHANGED <<socksVars, flatVars, handleVars, pairVars, parserVars, streamVars>>
    \/ Equal /\ UNCHANGED <<socksVars, flatVars, handleVars, pairVars, parserVars, streamVars>>
    \/ NotEqual /\ UNCHANGED <<socksVars, flatVars, handleVars, pairVars, parserVars, streamVars>>
    \/ Distance /\ UNCHANGED <<socksVars, flatVars, handleVars, pairVars, parserVars, streamVars>>
    \/ Less /\ UNCHANGED <<socksVars, flatVars, handleVars, pairVars, parserVars, streamVars>>
    \/ Greater /\ UNCHANGED <<socksVars, flatVars, handleVars, pairVars, parserVars, streamVars>>
    \/ GreaterEqual /\ UNCHANGED <<socksVars, flatVars, handleVars, pairVars, parserVars, streamVars>>
    \/ LessEqual /\ UNCHANGED <<socksVars, flatVars, handleVars, pairVars, parserVars, streamVars>>

NextElement ==
    \/ ElementAcquire /\ UNCHANGED <<socksVars, flatVars, handleVars, pairVars, parserVars, streamVars>>
    \/ ElementConsume /\ UNCHANGED <<socksVars, flatVars, handleVars, pairVars, parserVars, streamVars>>
    \/ ElementClear /\ UNCHANGED <<socksVars, flatVars, handleVars, pairVars, parserVars, streamVars>>

\* Either buffer in use, the other one untouched.
StoreUnused == sc_calls = 0 /\ store_ = <<>>
NextBuffers ==
    \/ StoreUnused /\ Reset /\ UNCHANGED <<socksVars, storeVars, seqVars, handleVars, pairVars, parserVars, streamVars>>
    \/ StoreUnused /\ Clear /\ UNCHANGED <<socksVars, storeVars, seqVars, handleVars, pairVars, parserVars, streamVars>>
    \/ StoreUnused /\ Prepare /\ UNCHANGED <<socksVars, storeVars, seqVars, handleVars, pairVars, parserVars, streamVars>>
    \/ StoreUnused /\ Commit /\ UNCHANGED <<socksVars, storeVars, seqVars, handleVars, pairVars, parserVars, streamVars>>
    \/ StoreUnused /\ Consume /\ UNCHANGED <<socksVars, storeVars, seqVars, handleVars, pairVars, parserVars, streamVars>>
    \/ StoreUnused /\ Shrink /\ UNCHANGED <<socksVars, storeVars, seqVars, handleVars, pairVars, parserVars, streamVars>>
    \/ StoreUnused /\ Store /\ UNCHANGED <<socksVars, storeVars, seqVars, handleVars, pairVars, parserVars, streamVars>>
    \/ FlatIdle /\ Add /\ UNCHANGED <<socksVars, flatVars, handleVars, pairVars, parserVars, streamVars>>
    \/ FlatIdle /\ ContainerConsume /\ UNCHANGED <<socksVars, flatVars, handleVars, pairVars, parserVars, streamVars>>
    \/ FlatIdle /\ MakeSequence /\ UNCHANGED <<socksVars, flatVars, handleVars, pairVars, parserVars, streamVars>>

NextHandle ==
    \/ HandlePrepare /\ UNCHANGED <<socksVars, storeVars, seqVars, pairVars, parserVars, streamVars>>
    \/ HandleCommit /\ UNCHANGED <<socksVars, storeVars, seqVars, pairVars, parserVars, streamVars>>
    \/ HandleConsume /\ UNCHANGED <<socksVars, storeVars, seqVars, pairVars, parserVars, streamVars>>
    \/ HandleData /\ UNCHANGED <<socksVars, storeVars, seqVars, pairVars, parserVars, streamVars>>
    \/ HandleStore /\ UNCHANGED <<socksVars, storeVars, seqVars, pairVars, parserVars, streamVars>>

\* Either the proxy over a flat buffer, or the construction of a sub-range
\* of a pair.
PairUnused == bp_call = NoSubRange
NextProxy ==
    \/ PairUnused /\ ProxyGrow /\ UNCHANGED <<socksVars, storeVars, seqVars, handleVars, pairVars, parserVars, streamVars>>
    \/ PairUnused /\ ProxyShrink /\ UNCHANGED <<socksVars, storeVars, seqVars, handleVars, pairVars, parserVars, streamVars>>
    \/ PairUnused /\ ProxyConsume /\ UNCHANGED <<socksVars, storeVars, seqVars, handleVars, pairVars, parserVars, streamVars>>
    \/ PairUnused /\ ProxyData /\ UNCHANGED <<socksVars, storeVars, seqVars, handleVars, pairVars, parserVars, streamVars>>
    \/ PairUnused /\ ProxyStore /\ UNCHANGED <<socksVars, storeVars, seqVars, handleVars, pairVars, parserVars, streamVars>>
    \/ Construct /\ UNCHANGED <<socksVars, flatVars, storeVars, seqVars, handleVars, parserVars, streamVars>>

NextParser ==
    \/ SingleBuffer /\ UNCHANGED <<socksVars, flatVars, storeVars, seqVars, handleVars, pairVars, streamVars>>
    \/ FirstPut /\ UNCHANGED <<socksVars, flatVars, storeVars, seqVars, handleVars, pairVars, streamVars>>
    \/ SecondPut /\ UNCHANGED <<socksVars, flatVars, storeVars, seqVars, handleVars, pairVars, streamVars>>
    \/ PutEof /\ UNCHANGED <<socksVars, flatVars, storeVars, seqVars, handleVars, pairVars, streamVars>>
    \/ CheckPut /\ UNCHANGED <<socksVars, flatVars, storeVars, seqVars, handleVars, pairVars, streamVars>>

NextStream ==
    \/ AsyncReadSome /\ UNCHANGED <<socksVars, flatVars, storeVars, seqVars, handleVars, pairVars, parserVars>>
    \/ NextLayerCompletes /\ UNCHANGED <<socksVars, flatVars, storeVars, seqVars, handleVars, pairVars, parserVars>>
    \/ PostRuns /\ UNCHANGED <<socksVars, flatVars, storeVars, seqVars, handleVars, pairVars, parserVars>>
    \/ ReadSome /\ UNCHANGED <<socksVars, flatVars, storeVars, seqVars, handleVars, pairVars, parserVars>>
    \/ SetCapacity /\ UNCHANGED <<socksVars, flatVars, storeVars, seqVars, handleVars, pairVars, parserVars>>

SpecSocks == InitS /\ [][NextSocks]_vars
SpecFlat == InitF /\ [][NextFlat]_vars
SpecStore == InitC /\ [][NextStore]_vars
SpecSeq == InitV /\ [][NextSeq]_vars
SpecIterator == InitI /\ [][NextIterator]_vars
SpecElement == InitE /\ [][NextElement]_vars
SpecBuffers == InitB /\ [][NextBuffers]_vars
SpecHandle == InitH /\ [][NextHandle]_vars
SpecProxy == InitP /\ [][NextProxy]_vars
SpecParser == InitT /\ [][NextParser]_vars
SpecStream == InitR /\ [][NextStream]_vars

(***************************************************************************)
(*                        Claims about socks5_op                           *)
(***************************************************************************)

\* The error code of the latest invocation of the caller's handler.
LastCall == handler_calls[Len(handler_calls)]

\* The operation has stopped: it was started and nothing is in flight.
Stopped == io_log # <<>> /\ outstanding = "none"

\* C1 (as claimed): the caller's completion handler is invoked exactly once per
\* handshake: never more than once, and exactly once when the operation has
\* stopped issuing I/O, then carrying success or the first error encountered.
C1_HandlerInvokedExactlyOnce ==
    /\ Len(handler_calls) <= 1
    /\ Stopped => Len(handler_calls) = 1
    /\ (Stopped /\ io_error # Success) => LastCall = io_error

\* C2 (as claimed): the handler is never invoked while a read or write of the
\* operation is outstanding, and once it has been invoked no further read or
\* write is issued.
C2_NoCompletionDuringIo ==
    /\ [](handler_calls # <<>> => outstanding = "none")
    /\ [][handler_calls # <<>> => io_log' = io_log]_vars

\* C3: when an asynchronous operation issued by socks5_op completes with a
\* non-zero error code, socks5_op is terminated with nothing in flight (so no
\* retry and no further I/O) and the handler's final invocation carries
\* exactly that error code.
C3_IoErrorIsTerminal ==
    io_error # Success =>
        /\ outstanding = "none"
        /\ coro = Terminated
        /\ handler_calls # <<>>
        /\ LastCall = io_error

\* C3 witness: the method-selection read failed after a successful write.
C3_Witness ==
    /\ io_error \in TransportErrors
    /\ io_log = <<"write", "read">>
    /\ wire = <<5, 2, 0, 2>>

\* C4 (as claimed): without credentials, a server that selects method 0x00 in a
\* version-5 reply (and would accept the connect request) makes the handshake
\* complete with success.
C4_NoAuthHandshakeSucceeds ==
    (/\ username_ = <<>>
     /\ password_ = <<>>
     /\ reply = <<SOCKS_VERSION_5, SOCKS5_AUTH_NONE>>
     /\ Stopped) => LastCall = Success

\* C5 (as claimed): the greeting being written is [0x05][n_methods][methods],
\* n_methods counts the method bytes, and the methods are no-auth alone without
\* credentials and no-auth plus username/password with credentials.
C5_GreetingFollowsCredentials ==
    outstanding = "write" =>
        /\ Len(pending_tx) >= 2
        /\ pending_tx[1] = SOCKS_VERSION_5
        /\ pending_tx[2] = Len(pending_tx) - 2
        /\ SubSeq(pending_tx, 3, Len(pending_tx)) =
              IF username_ = <<>> THEN <<SOCKS5_AUTH_NONE>>
              ELSE <<SOCKS5_AUTH_NONE, SOCKS5_AUTH>>

\* C6: when the version-5 method-selection reply selects a method other than
\* 0x00 and 0x02, the handshake is terminated with the unsupported
\* authentication method error, and the greeting write and the reply read are
\* the only operations it ever issued.
C6_UnknownMethodRejected ==
    (/\ Len(reply) = 2
     /\ reply[1] = SOCKS_VERSION_5
     /\ reply[2] \notin {SOCKS5_AUTH_NONE, SOCKS5_AUTH}) =>
        /\ coro = Terminated
        /\ outstanding = "none"
        /\ io_log = <<"write", "read">>
        /\ handler_calls # <<>>
        /\ LastCall = socks_unsupported_authentication_version

\* C6 witness: the server selected method 0x01 (GSSAPI) and the operation ended.
C6_Witness ==
    /\ reply = <<SOCKS_VERSION_5, 1>>
    /\ coro = Terminated

\* C7 (as claimed): when the server selects username/password and the username
\* is empty, nothing beyond the greeting is ever written to the transport and
\* the handshake ends with the missing-username error.
C7_EmptyUsernameRejected ==
    (/\ reply = <<SOCKS_VERSION_5, SOCKS5_AUTH>>
     /\ username_ = <<>>) =>
        /\ wire = <<5, 2, 0, 2>>
        /\ Stopped => LastCall = socks_username_required

\* C31: socks5_op issues its I/O in protocol order.  The operations issued are
\* a prefix of: greeting write, method-selection read, sub-negotiation; the
\* read is for exactly 2 bytes; the sub-negotiation is issued only after a
\* validated reply selecting method 0x02; and an operation is issued only in
\* a step where nothing was outstanding before or the outstanding operation
\* completed, every completion so far having carried no error.
C31_IoInProtocolOrder ==
    /\ [](/\ \E k \in 0..3 : io_log = SubSeq(<<"write", "read", "auth">>, 1, k)
          /\ outstanding = "write" => io_log = <<"write">>
          /\ outstanding = "read" =>
                 (io_log = <<"write", "read">> /\ Len(buffer_) = 2)
          /\ outstanding \in {"auth_write", "auth_read"} =>
                 io_log = <<"write", "read", "auth">>
          /\ Len(io_log) = 3 =>
                 reply = <<SOCKS_VERSION_5, SOCKS5_AUTH>>)
    /\ [][io_log' # io_log =>
            /\ io_log' = Append(io_log, io_log'[Len(io_log')])
            /\ outstanding \in {"none", "write", "read"}
            /\ outstanding = "none" <=> io_log = <<>>
            /\ outstanding # "none" => io_log[Len(io_log)] = outstanding
            /\ outstanding' # "none"
            /\ io_error' = Success]_vars

\* C31 witness: all three operations were issued, the last one being the
\* sub-negotiation, whose write is in flight.
C31_Witness ==
    /\ io_log = <<"write", "read", "auth">>
    /\ outstanding = "auth_write"
    /\ wire = <<5, 2, 0, 2>>

\* C32: when the first byte of the method-selection reply is not 0x05,
\* socks5_op is terminated with nothing in flight, its handler's final
\* invocation carries an error, whatever the second byte, and the greeting
\* write and the reply read are the only operations it ever issued.
C32_BadVersionRejected ==
    (Len(reply) = 2 /\ reply[1] # SOCKS_VERSION_5) =>
        /\ coro = Terminated
        /\ outstanding = "none"
        /\ io_log = <<"write", "read">>
        /\ handler_calls # <<>>
        /\ LastCall # Success

\* C32 witness: a reply of version 1 selecting username/password ended the
\* operation.
C32_Witness ==
    /\ reply = <<1, SOCKS5_AUTH>>
    /\ coro = Terminated
    /\ LastCall = protocol_error

(***************************************************************************)
(*                 Claims about flat_static_buffer_base                    *)
(***************************************************************************)

\* C8: after reset and any sequence of prepare (failing ones included), commit,
\* consume, clear and shrink, begin_ <= in_ <= out_ <= last_ <= end_; so size()
\* plus the uncommitted writable bytes is at most capacity(), and size() is at
\* most max_size().
C8_CursorLayout ==
    /\ begin_ <= in_
    /\ in_ <= out_
    /\ out_ <= last_
    /\ last_ <= end_
    /\ size(Buf) + dist(out_, last_) <= capacity(Buf)
    /\ size(Buf) <= max_size(Buf)

\* C8 witness: a prepare has just failed on a buffer whose five cursors are
\* all different.
C8_Witness ==
    /\ fb_call[1] = "prepare"
    /\ fb_threw
    /\ begin_ < in_
    /\ in_ < out_
    /\ out_ < last_

\* C9: prepare(n) with n > capacity() - size() throws and leaves in_, out_,
\* last_, size() and the readable bytes as they were.
C9_FailedPrepareChangesNothing ==
    (/\ fb_call[1] = "prepare"
     /\ fb_call[2] > capacity(Buf) - dist(fb_pre.in, fb_pre.out)) =>
        /\ fb_threw
        /\ in_ = fb_pre.in
        /\ out_ = fb_pre.out
        /\ last_ = fb_pre.last
        /\ size(Buf) = Len(fb_pre.readable)
        /\ readable(Buf) = fb_pre.readable

\* C9 witness: a prepare failed on a buffer holding readable bytes that do not
\* start at begin_.
C9_Witness ==
    /\ fb_call[1] = "prepare"
    /\ fb_threw
    /\ fb_call[2] > capacity(Buf) - size(Buf)
    /\ begin_ < in_
    /\ in_ < out_

\* C10: a successful prepare(n) returns the n bytes [out_, out_ + n), which
\* start right after the last readable byte and lie inside [begin_, end_], and
\* size() and the readable bytes are what they were, also after compaction.
C10_PreparedRegion ==
    (/\ fb_call[1] = "prepare"
     /\ ~fb_threw) =>
        /\ fb_ret = <<out_, fb_call[2]>>
        /\ last_ = out_ + fb_call[2]
        /\ begin_ <= out_
        /\ out_ + fb_call[2] <= end_
        /\ size(Buf) = Len(fb_pre.readable)
        /\ readable(Buf) = fb_pre.readable

\* C10 witness: a successful prepare moved a non-empty readable region, holding
\* a byte that differs from the one it overwrote, to the front of the storage.
C10_Witness ==
    /\ fb_call[1] = "prepare"
    /\ ~fb_threw
    /\ fb_call[2] > 0
    /\ fb_pre.in > begin_
    /\ in_ = begin_
    /\ size(Buf) > 0
    /\ mem[in_] = 1

\* C40 (as claimed): the count of uncommitted writable bytes, last_ - out_, is
\* at most the n of the most recent successful prepare(n), and 0 when there was
\* none since reset/clear; so a commit never increases size() by more than
\* that n, also when consume or shrink came between prepare and commit.
C40_WritableWithinPrepared ==
    /\ dist(out_, last_) <= fb_prepared
    /\ fb_call[1] = "commit" =>
           size(Buf) - Len(fb_pre.readable) <= fb_prepared

(***************************************************************************)
(*          Claims about the buffers, the block list and the view          *)
(***************************************************************************)

Min(a, b) == IF a < b THEN a ELSE b

\* The readable regions of a block list, front first, and those of them
\* that hold a byte.
StoreBuffers(store) == [i \in DOMAIN store |-> value_type(store[i])]
NonEmpty(bs) == SelectSeq(bs, LAMBDA b : b.size # 0)
Readable(store) == NonEmpty(StoreBuffers(store))

\* The regions bs without their first n bytes, and their first n bytes.
RECURSIVE DropBytes(_, _)
DropBytes(bs, n) ==
    IF bs = <<>> \/ n = 0 THEN bs
    ELSE IF n >= Head(bs).size THEN DropBytes(Tail(bs), n - Head(bs).size)
    ELSE <<[Head(bs) EXCEPT !.data = @ + n, !.size = @ - n]>> \o Tail(bs)
RECURSIVE TakeBytes(_, _)
TakeBytes(bs, n) ==
    IF bs = <<>> \/ n = 0 THEN <<>>
    ELSE IF n >= Head(bs).size
    THEN <<Head(bs)>> \o TakeBytes(Tail(bs), n - Head(bs).size)
    ELSE <<[Head(bs) EXCEPT !.size = n]>>

\* The sum of the sizes of the first i blocks of a block list.
RECURSIVE Cum(_, _)
Cum(store, i) == IF i = 0 THEN 0 ELSE Cum(store, i - 1) + element_size(store[i])

\* The bytes a flat buffer's commit(n) appends: the first min(n, last_ - out_)
\* bytes of the writable region as it was before the call.
Committed(n) ==
    [i \in 1..Min(n, fb_pre.last - fb_pre.out) |-> mem[fb_pre.out + i - 1]]

\* C11 (as claimed): round trip. The readable bytes are the committed bytes in
\* commit order minus the consumed prefix, at the same offsets: in the flat
\* buffer commit appends the committed bytes, consume removes a prefix and
\* prepare (compacting or not) leaves the readable bytes as they were; in the
\* block list add(n) appends n bytes behind the bytes already readable and
\* consume(n) removes a prefix, however many blocks the bytes span.
C11_RoundTrip ==
    /\ fb_call[1] = "commit" => readable(Buf) = fb_pre.readable \o Committed(fb_call[2])
    /\ fb_call[1] = "prepare" => readable(Buf) = fb_pre.readable
    /\ fb_call[1] = "consume" =>
          readable(Buf) = SubSeq(fb_pre.readable,
                                 Min(fb_call[2], Len(fb_pre.readable)) + 1,
                                 Len(fb_pre.readable))
    /\ sc_call[1] = "add" =>
          /\ sum_sizes(Readable(store_)) = sum_sizes(Readable(sc_pre)) + sc_call[2]
          /\ TakeBytes(Readable(store_), sum_sizes(Readable(sc_pre))) = Readable(sc_pre)
    /\ sc_call[1] = "consume" =>
          Readable(store_) = DropBytes(Readable(sc_pre), sc_call[2])

\* C12: consume(n) removes exactly min(n, size()) bytes from the front of the
\* readable region and never fails, in the flat buffer and in the block list:
\* with n >= size() the buffer becomes empty, with n < size() the former
\* bytes from offset n onward remain.
C12_ConsumeRemovesPrefix ==
    /\ fb_call[1] = "consume" =>
          /\ ~fb_threw
          /\ size(Buf) = Len(fb_pre.readable) - Min(fb_call[2], Len(fb_pre.readable))
          /\ readable(Buf) = SubSeq(fb_pre.readable,
                                    Min(fb_call[2], Len(fb_pre.readable)) + 1,
                                    Len(fb_pre.readable))
    /\ sc_call[1] = "consume" =>
          /\ ~sc_assert
          /\ sum_sizes(Readable(store_)) =
                sum_sizes(Readable(sc_pre))
                    - Min(sc_call[2], sum_sizes(Readable(sc_pre)))
          /\ Readable(store_) = DropBytes(Readable(sc_pre), sc_call[2])

\* A consume that ends inside the second of three blocks of the block list.
C12_Witness ==
    /\ sc_call[1] = "consume"
    /\ Len(sc_pre) = 3 /\ Len(store_) = 2
    /\ store_[1].begin_used > sc_pre[2].begin_used
    /\ element_size(store_[1]) > 0

\* C13: consume(n) on the block list evicts from the front exactly the blocks
\* whose readable bytes were all consumed and frees each evicted block once;
\* the block at the consumption point only has its begin_used_ advanced, the
\* blocks behind it are unchanged, and the order of the blocks is kept.
C13_ConsumeEvictsExactly ==
    /\ \A i \in 1..Len(freed) : \A j \in 1..Len(freed) :
          freed[i] = freed[j] => i = j
    /\ \A i \in 1..Len(store_) : \A j \in 1..Len(freed) : store_[i].id # freed[j]
    /\ sc_call[1] = "consume" =>
          LET n == sc_call[2]
              k == Len(sc_pre) - Len(store_) IN
          /\ k >= 0
          /\ \A i \in 1..k : \E j \in 1..Len(freed) : freed[j] = sc_pre[i].id
          /\ \A i \in 1..Len(sc_pre) :
                element_size(sc_pre[i]) > 0 => (i <= k <=> Cum(sc_pre, i) <= n)
          /\ \A i \in 2..Len(store_) : store_[i] = sc_pre[i + k]
          /\ Len(store_) > 0 =>
                store_[1] = [sc_pre[k + 1] EXCEPT !.begin_used =
                                @ + (IF n > Cum(sc_pre, k) THEN n - Cum(sc_pre, k) ELSE 0)]

\* A consume that evicts one of three blocks and ends inside the next.
C13_Witness ==
    /\ sc_call[1] = "consume"
    /\ Len(sc_pre) = 3 /\ Len(store_) = 2
    /\ Len(freed) = 1
    /\ store_[1].begin_used # sc_pre[2].begin_used
    /\ store_[2] = sc_pre[3]

\* The sum of the capacities of the blocks of a block list.
RECURSIVE TotalCapacity(_)
TotalCapacity(store) ==
    IF store = <<>> THEN 0
    ELSE element_capacity(Head(store)) + TotalCapacity(Tail(store))

\* C14 (as claimed): for a container constructed with limit L the sum of the
\* capacities of all its blocks never exceeds L.
C14_AllocatedWithinLimit == TotalCapacity(store_) <= limit_

\* C15 (as claimed): every block of the container satisfies
\* begin_data_ <= begin_used_ <= end_used_ <= end_data_, and no call of add or
\* consume reaches a storage_element::acquire or storage_element::consume
\* whose asserted precondition is false.
C15_BlockInvariant ==
    /\ \A i \in 1..Len(store_) :
          /\ store_[i].begin_data <= store_[i].begin_used
          /\ store_[i].begin_used <= store_[i].end_used
          /\ store_[i].end_used <= store_[i].end_data
    /\ sc_call[1] \in {"add", "consume"} => ~sc_assert

\* C16 (as claimed): growth policy of add(n). The first block allocated has
\* capacity max(4096, n); on a non-empty container a request that fits the
\* last block's available() is satisfied inside that block and allocates
\* nothing, and otherwise exactly one new block is appended.
C16_GrowthPolicy ==
    sc_call[1] = "add" =>
        LET n == sc_call[2] IN
        IF sc_pre = <<>>
        THEN /\ Len(store_) = 1
             /\ allocated = 1 =>
                   element_capacity(store_[1]) =
                       (IF n > default_min_block_size THEN n
                        ELSE default_min_block_size)
        ELSE IF available(sc_pre[Len(sc_pre)]) >= n
        THEN /\ Len(store_) = Len(sc_pre)
             /\ store_ = [sc_pre EXCEPT ![Len(sc_pre)] = acquire(@, n)]
        ELSE /\ Len(store_) = Len(sc_pre) + 1
             /\ SubSeq(store_, 1, Len(sc_pre)) = sc_pre

\* C17 (as claimed): a view obtained from make_sequence stays valid across
\* later calls of add: its element pointers still point into the vector's
\* array, and its elements denote the bytes they denoted when it was made.
C17_ViewStaysValid ==
    seq_.begin.f # seq_.end.f =>
        /\ seq_data = vec_data
        /\ Buffers(seq_, store_, NoElement) = seq_bytes

\* C18 (as claimed): clear() empties the readable and writable runs and keeps
\* the capacity, all of which is available again: for the flat buffer
\* size() = 0, last_ = out_ = begin_ and the cursors begin_, end_ are kept;
\* for a block size() = 0, capacity() is kept and available() = capacity().
C18_ClearKeepsCapacity ==
    /\ fb_call[1] = "clear" =>
          /\ size(Buf) = 0
          /\ last_ = out_
          /\ out_ = begin_
          /\ ~prepare(Buf, capacity(Buf)).threw
    /\ sc_call[1] = "clear" =>
          /\ element_size(store_[1]) = 0
          /\ element_capacity(store_[1]) = element_capacity(sc_pre[1])
          /\ available(store_[1]) = element_capacity(store_[1])

\* The view before the last adjust, its regions and its length.
BeforeAdjust == NonEmpty(Buffers(seq_call.pre, store_, NoElement))
AfterAdjust == NonEmpty(Buffers(seq_, store_, NoElement))

\* C19 (as claimed): adjust(pos, limit) on a view whose flattened bytes are S
\* leaves a view whose flattened bytes are S[pos, pos + limit), the same
\* bytes at the same addresses.
C19_AdjustDenotesSubRange ==
    seq_call.count > 0 =>
        AfterAdjust = TakeBytes(DropBytes(BeforeAdjust, seq_call.pos), seq_call.limit)

\* C20 (as claimed): edge cases of adjust(pos, limit) on a view of length len.
\* limit = 0 and pos >= len give an empty view (begin() = end()); the total
\* length of the result is min(limit, len - pos); no element is longer than
\* its block's readable size.
C20_AdjustEdgeCases ==
    seq_call.count > 0 =>
        LET len == sum_sizes(BeforeAdjust)
            bs == Buffers(seq_, store_, NoElement) IN
        /\ seq_call.limit = 0 => seq_.begin.f = seq_.end.f
        /\ seq_call.pos >= len => seq_.begin.f = seq_.end.f
        /\ sum_sizes(bs) =
              (IF seq_call.pos >= len THEN 0 ELSE Min(seq_call.limit, len - seq_call.pos))
        /\ \A k \in 1..Len(bs) :
              bs[k].size <= element_size(element_at(store_, seq_.begin.f + k - 1, NoElement))

\* The view the container hands out over the blocks, before any adjust.
Original == buffer_sequence(0, Len(store_))

\* The non-empty regions of a view over the blocks.
Denotes(s) == NonEmpty(Buffers(s, store_, NoElement))

\* C21 (as claimed): adjust(p1, l1) followed by adjust(p2, l2) leaves a view
\* denoting the same bytes as one adjust(p1 + p2, min(l2, l1 - p2)) on the
\* original view, and an empty view when p2 >= l1.
C21_AdjustComposes ==
    seq_call.count = 2 =>
        \A p1 \in AdjustArgs : \A l1 \in AdjustArgs :
            adjust(Original, p1, l1, store_, NoElement) = seq_call.pre =>
                Denotes(seq_) =
                    (IF seq_call.pos >= l1 THEN <<>>
                     ELSE Denotes(adjust(Original, p1 + seq_call.pos,
                                         Min(seq_call.limit, l1 - seq_call.pos),
                                         store_, NoElement)))

\* The number of elements of the view, and the block at its position i.
ViewLength == seq_.end.f - seq_.begin.f
BlockAt(i) == value_type(element_at(store_, seq_.begin.f + i, NoElement))

\* The region the claim gives position i, as far as C22 fixes it: the block's
\* readable region, its first bytes skipped by the initial discount at position
\* 0 only, and shortened by the final discount at the last position only.
DiscountedAs(b, i) ==
    LET a0 == seq_.begin.initial_discount.amount
        a1 == seq_.begin.final_discount.amount
        r == IF i = 0 THEN buffer_advance(BlockAt(i), a0) ELSE BlockAt(i) IN
    IF i = ViewLength - 1
    THEN b.id = r.id /\ b.size = (r.size - a1) % SizeMod
    ELSE b = r

\* C22 (as claimed): dereferencing an iterator at position i of a view of k
\* blocks, however the iterator got there, yields block i's readable region
\* with the initial discount applied iff i = 0 and the final discount applied
\* iff i = k - 1; interior blocks are not discounted, and the region depends on
\* the position only.
C22_DiscountsByPosition ==
    \A x \in {it_, it_ret} :
        (0 <= Position(x) /\ Position(x) < ViewLength) =>
            /\ DiscountedAs(deref(x, store_, NoElement), Position(x))
            /\ deref(x, store_, NoElement) =
                  deref(iterator_advance(seq_.begin, Position(x)), store_, NoElement)

\* C23 (as claimed): a final discount of amount a shortens the last element by
\* a bytes at its end, leaving its start where it is without the discount (the
\* block's readable start, after the initial discount if the element is also
\* the first); an initial discount of amount a skips the first a bytes of the
\* first block.
C23_FinalDiscountTrimsEnd ==
    \A x \in {it_, it_ret} :
        (0 <= Position(x) /\ Position(x) < ViewLength) =>
            LET b == deref(x, store_, NoElement)
                raw == BlockAt(Position(x))
                skipped == IF applies(x.initial_discount)
                           THEN buffer_advance(raw, x.initial_discount.amount)
                           ELSE raw IN
            /\ applies(x.initial_discount) /\ ~applies(x.final_discount) =>
                  b = buffer_advance(raw, x.initial_discount.amount)
            /\ applies(x.final_discount) =>
                  /\ b.data = skipped.data
                  /\ b.size = (skipped.size - x.final_discount.amount) % SizeMod

\* C33 (as claimed): for two iterators a and b of the same view, equality and
\* ordering agree with the distance b - a, which is a difference of block
\* pointers: a == b iff b - a = 0, a != b iff b - a # 0, a < b iff b - a > 0,
\* and a > b iff b < a, a <= b iff not b < a, a >= b iff not a < b.
C33_OrderAgreesWithDistance ==
    LET a == it_
        b == it_ret
        r == it_call[2] IN
    /\ it_call[1] = "distance" => r = Position(b) - Position(a)
    /\ it_call[1] = "==" => (r <=> operator_minus(b, a) = 0)
    /\ it_call[1] = "!=" => (r <=> operator_minus(b, a) # 0)
    /\ it_call[1] = "<" => (r <=> operator_minus(b, a) > 0)
    /\ it_call[1] = ">" => (r <=> operator_lt(b, a))
    /\ it_call[1] = "<=" => (r <=> ~operator_lt(b, a))
    /\ it_call[1] = ">=" => (r <=> ~operator_lt(a, b))

(***************************************************************************)
(*       Claims about dynamic_buffer_handle with asio v2 behaviour         *)
(***************************************************************************)

\* size() of the handle when the last call was made.
PreHandleSize == (Len(fb_pre.readable) - dh_pre) % SizeMod

\* The bytes a buffer <<data, size>> denotes: nothing, or a run of addresses.
Region(buf) == IF buf[2] = 0 THEN <<>> ELSE buf

\* C24 (as claimed): commit(n) with p bytes prepared does not fail, leaves
\* nothing prepared, and makes size() grow by exactly min(n, p): the readable
\* bytes become the former readable bytes followed by the first min(n, p)
\* prepared bytes, and the other prepared bytes are gone from the underlying
\* buffer; with nothing prepared size() stays as it was.
C24_CommitAppends ==
    fb_call[1] = "commit" =>
        LET grown == PreHandleSize + Min(fb_call[2], dh_pre) IN
        /\ ~fb_threw
        /\ prepared = 0
        /\ handle_size(Handle) = grown
        /\ proxy_size(Buf) = grown
        /\ grown <= Len(fb_pre.readable)
        /\ readable(Buf) = SubSeq(fb_pre.readable, 1, grown)

\* C25 (as claimed): data() denotes exactly the bytes at offsets [0, size())
\* of the underlying buffer, the readable run, in every state that prepare,
\* commit and consume reach.
C25_DataIsReadableRun ==
    fb_call[1] = "data" =>
        Region(fb_ret) = Region(<<in_, handle_size(Handle)>>)

\* C34 (as claimed): prepare(n) on the handle throws length_error if and only
\* if size() + n exceeds max_size(), size() being the handle's readable size;
\* when it throws, size(), the prepared count and the underlying buffer are
\* unchanged; when it succeeds it returns a region of exactly n bytes that
\* starts directly after the readable bytes.
C34_PrepareOrThrow ==
    fb_call[1] = "prepare" =>
        /\ fb_threw <=> (PreHandleSize + fb_call[2] > handle_max_size(Handle))
        /\ fb_threw =>
               /\ handle_size(Handle) = PreHandleSize
               /\ prepared = dh_pre
               /\ in_ = fb_pre.in /\ out_ = fb_pre.out /\ last_ = fb_pre.last
               /\ readable(Buf) = fb_pre.readable
        /\ ~fb_threw =>
               /\ fb_ret[2] = fb_call[2]
               /\ fb_ret[1] = in_ + PreHandleSize

\* C35 (as claimed): prepare on the handle never changes size(): after any
\* prepare, following a commit or following another prepare, size() is what
\* it was before the call, a new prepare discarding the region prepared before.
C35_PrepareKeepsSize ==
    fb_call[1] = "prepare" => handle_size(Handle) = PreHandleSize

(***************************************************************************)
(*   Claims about dynamic_buffer_v0_proxy over flat_static_buffer_base     *)
(***************************************************************************)

\* C26: grow(n) throws exactly when size() + n > max_size(), and then leaves
\* size() and the readable bytes as they were; otherwise size() grows by
\* exactly n and the former readable bytes are the first bytes of the new
\* readable bytes, unchanged.
C26_GrowOrThrow ==
    fb_call[1] = "grow" =>
        LET n == fb_call[2]
            before == fb_pre.readable IN
        IF Len(before) + n > proxy_max_size(Buf)
        THEN /\ fb_threw
             /\ readable(Buf) = before
        ELSE /\ ~fb_threw
             /\ proxy_size(Buf) = Len(before) + n
             /\ SubSeq(readable(Buf), 1, Len(before)) = before

\* A grow(n) with n > 0 that succeeded on a non-empty buffer whose readable
\* bytes had to be moved to the front of the storage to make room.
C26_Witness ==
    /\ fb_call[1] = "grow" /\ fb_call[2] > 0 /\ ~fb_threw
    /\ Len(fb_pre.readable) > 0
    /\ in_ < fb_pre.in
    /\ 1 \in {fb_pre.readable[i] : i \in 1..Len(fb_pre.readable)}

\* C27: shrink(n) erases exactly min(n, size()) bytes from the end of the
\* input area: size() decreases by that amount, the remaining readable bytes
\* are the former first bytes, unchanged, and with n > size() nothing is left.
C27_ShrinkErasesTail ==
    fb_call[1] = "shrink" =>
        LET n == fb_call[2]
            before == fb_pre.readable
            erased == Min(n, Len(before)) IN
        /\ ~fb_threw
        /\ proxy_size(Buf) = Len(before) - erased
        /\ readable(Buf) = SubSeq(before, 1, Len(before) - erased)
        /\ n > Len(before) => readable(Buf) = <<>>

\* A shrink(n) that erased some but not all of the readable bytes, the byte
\* it left differing from the byte it erased.
C27_Witness ==
    /\ fb_call[1] = "shrink" /\ fb_call[2] > 0
    /\ fb_call[2] < Len(fb_pre.readable)
    /\ proxy_size(Buf) > 0
    /\ fb_pre.readable[1] # fb_pre.readable[Len(fb_pre.readable)]

\* The non-empty buffers of a sequence of buffers, in order.
Regions(bs) == SelectSeq(bs, LAMBDA x : x[2] > 0)

\* The bytes at offsets [min(pos, len), min(pos + n, len)) of the bytes a
\* sequence of two buffers denotes, len being their total length.
SubRange(bs, pos, n) ==
    LET s0 == bs[1][2]
        len == bs[1][2] + bs[2][2]
        lo == Min(pos, len)
        hi == Min(pos + n, len)
        lo2 == IF lo < s0 THEN s0 ELSE lo
        hi2 == IF hi < s0 THEN s0 ELSE hi IN
    Regions(<<<<bs[1][1] + Min(lo, s0), Min(hi, s0) - Min(lo, s0)>>,
              <<bs[2][1] + (lo2 - s0), hi2 - lo2>>>>)

\* C28: the (pos, n) sub-range of a readable region of length len denotes
\* exactly the bytes at offsets [min(pos, len), min(pos + n, len)), both for
\* data_impl(pos, n) of the flat buffer and for buffers_pair(other, pos, n);
\* the first buffer of the resulting pair is empty only if the second is.
C28_SubRange ==
    /\ fb_call[1] = "data" =>
          Regions(<<fb_ret>>) =
              SubRange(<<<<in_, proxy_size(Buf)>>, NoBuffer>>,
                       fb_call[2], fb_call[3])
    /\ bp_call.done =>
          /\ Regions(b_) = SubRange(bp_call.other, bp_call.pos, bp_call.n)
          /\ b_[1][2] = 0 => b_[2][2] = 0

\* A sub-range of a pair that starts inside the first buffer, ends inside the
\* second one and leaves bytes out at both ends.
C28_Witness ==
    /\ bp_call.done
    /\ bp_call.pos > 0
    /\ b_[1][2] > 0
    /\ b_[2][2] > 0
    /\ b_[2][2] < bp_call.other[2][2]

(***************************************************************************)
(*                    Claims about http::basic_parser                      *)
(***************************************************************************)

\* What a parser has parsed.
Parsed(p) ==
    [kind |-> p.kind, fields |-> p.fields, body |-> p.body,
     content_length |-> p.content_length, chunked |-> p.chunked,
     need_eof |-> p.need_eof]

LengthsOf(s0) ==
    SelectSeq(s0, LAMBDA b : b \in {Digit(v) : v \in LengthValues})

ReadDone == rs_call.kind # "none" /\ op_.pending = "none"

\* The readable bytes of the internal buffer when the latest read was called.
Buffered == dyn_data(rs_call.buffer)

\* C36: a read_some or async_read_some called with k > 0 bytes in the internal
\* buffer and caller buffers of size c issues no read on the next layer (the
\* asynchronous one waits for the executor only), and completes without error
\* with the first min(k, c) buffered bytes, which are exactly the bytes then
\* removed from the front of the internal buffer.
C36_ServedFromBuffer ==
    (rs_call.kind # "none" /\ Len(Buffered) > 0) =>
        /\ ~rs_call.issued
        /\ op_.pending \in {"none", "post"}
        /\ op_.pending = "none" =>
              /\ rs_ret.ec = Success
              /\ rs_ret.bytes =
                    SubSeq(Buffered, 1, std_min(Len(Buffered), rs_call.b))
              /\ dyn_data(s_buffer_) =
                    SubSeq(Buffered, std_min(Len(Buffered), rs_call.b) + 1,
                           Len(Buffered))

\* C36 witness: an async_read_some into a 1-byte buffer, called with 2 bytes
\* buffered, has completed.
C36_Witness ==
    /\ rs_call.kind = "async"
    /\ Len(Buffered) = 2
    /\ rs_call.b = 1
    /\ op_.pending = "none"
    /\ rs_ret.from = "post"

\* C37: whatever reads are made, with whatever buffer sizes and capacity
\* settings, the bytes delivered to callers followed by the bytes in the
\* internal buffer are exactly the bytes the next layer has produced, in
\* order: nothing is lost, duplicated or reordered.
C37_DeliveredIsPrefix ==
    delivered \o dyn_data(s_buffer_) = stream_bytes(0, next_layer_)

\* C37 witness: two bytes were delivered, a third is buffered, and the capacity
\* was set to 0 while it is buffered.
C37_Witness ==
    /\ delivered = <<1, 2>>
    /\ dyn_data(s_buffer_) = <<3>>
    /\ s_capacity_ = 0
    /\ rs_call.kind = "async"

\* C38: the handler of an async_read_some is invoked exactly once: never twice,
\* not while the operation is in flight, and once when it is over, on every
\* path; it is never invoked from inside the initiating call, and on the
\* served-from-buffer path it is invoked by the executor running a post.
C38_HandlerOncePosted ==
    /\ rs_invoked <= 1
    /\ rs_call.kind = "async" => (rs_invoked = 1 <=> op_.pending = "none")
    /\ rs_ret.from # "initiation"
    /\ (rs_call.kind = "async" /\ op_.pending = "none" /\ Len(Buffered) > 0) =>
          rs_ret.from = "post"

\* C38 witness: an async_read_some served from the internal buffer has
\* completed with the last buffered byte.
C38_Witness ==
    /\ rs_call.kind = "async"
    /\ Len(Buffered) = 1
    /\ rs_ret.from = "post"
    /\ rs_invoked = 1
    /\ rs_ret.bytes = <<next_layer_>>

====
